---- MODULE Spec2Model ----
(***************************************************************************)
(* Model of the thermal-printer transport layer of print-service           *)
(* (src/thermal.py, src/api.py): the ESC/POS document builder, the BLE     *)
(* connection state kept in the Thermal singleton, the synchronous entry   *)
(* points (connect_ble, disconnect_ble, _send_ble_escpos), the coroutines  *)
(* they dispatch onto per-thread asyncio event loops, and the HTTP         *)
(* handlers that call them from the waitress worker threads.               *)
(***************************************************************************)
EXTENDS Integers, Sequences, FiniteSets, TLC

(***************************************************************************)
(* Bounds of the model.                                                    *)
(***************************************************************************)
NumWorkers == 2        \* request threads modelled (waitress serves with 4)
MaxScans == 1          \* BLE scans in one behaviour
MaxSelects == 2        \* in-range selections (each starts a detection thread)
MaxClears == 1         \* out-of-range selections (each runs disconnect_ble)
MaxDisconnects == 2     \* selection clears in a row
MaxRouted == 2         \* requests through the routes in one behaviour
MaxUsbScans == 1       \* USB scans in one behaviour
MaxUsbSelects == 1     \* USB selections in one behaviour
MaxModes == 1          \* mode changes in one behaviour
MaxRescans == 2        \* USB scans around one USB selection
MaxUsbChunks == 2      \* full USB chunks in a raw payload
MaxRequests == 2       \* accepted print requests
MaxRejects == 1        \* print requests answered 400 (url or code missing)
MaxPrints == 3         \* accepted print requests on a ready printer
MaxPayloadLen == 541   \* longest raw payload handed to _send_ble_escpos
MaxTasks == 6          \* coroutines alive at once
LogoBytes == 40        \* size of the raster block dummy.image() emits
QrCapacity == 16       \* longest url dummy.qr() can encode

(***************************************************************************)
(* Program constants.                                                      *)
(***************************************************************************)
BLE_CHUNK == 180            \* chunk = 180

None == "None"
NoTask == 0
NoClient == 0
NoThread == <<"none", 0>>
GuiThread == <<"gui", 0>>
Workers == {<<"w", i>> : i \in 1..NumWorkers}
Detectors == {<<"d", i>> : i \in 1..MaxSelects}
Threads == {GuiThread} \cup Workers \cup Detectors

Min(a, b) == IF a <= b THEN a ELSE b

(***************************************************************************)
(* Byte strings.  Text is modelled by its ASCII codes.                     *)
(***************************************************************************)
Empty == << >>
Url1 == <<104, 116, 116, 112, 115, 58, 47, 47, 120, 46, 116, 101, 115, 116, 47, 97>>
UrlLong == Url1 \o <<47, 98, 98>>
Code1 == <<65, 66, 67, 49, 50, 51>>
CodePrefix == <<67, 79, 68, 69, 58, 32>>
Separator == [i \in 1..31 |-> 45]
TxtScan == <<83, 67, 65, 78, 32, 81, 82>>
TxtDownload == <<85, 78, 84, 85, 75, 32, 68, 79, 87, 78, 76, 79, 65, 68>>
TxtPowered == <<112, 111, 119, 101, 114, 101, 100, 32, 98, 121, 32, 84, 104,
                111, 108, 101, 101, 32, 83, 116, 117, 100, 105, 111>>
TxtContact == <<64, 116, 104, 111, 108, 101, 101, 46, 115, 116, 117, 100, 105,
                111, 32, 124, 32, 48, 56, 57, 53, 32, 50, 53, 48, 48, 32, 57,
                54, 53, 53>>
Urls == {Empty, Url1, UrlLong}
Codes == {Empty, Code1}

(***************************************************************************)
(* The escpos Dummy printer: every call appends the bytes of one command   *)
(* to dummy.output.  A command is kept as [op, bytes] so that the document *)
(* can be read both as opcodes and as the byte string that is sent.        *)
(***************************************************************************)
OpSetCenter == [op |-> "align_center", bytes |-> <<27, 97, 1>>]
OpSetNormal == [op |-> "set_normal", bytes |-> <<29, 33, 0, 27, 97, 1>>]
OpImage == [op |-> "image", bytes |-> <<29, 118, 48, 0>> \o [i \in 1..LogoBytes |-> 255]]
OpQr(url) == [op |-> "qr", bytes |-> <<29, 40, 107>> \o url]
OpTextln(s) == [op |-> "text", bytes |-> s \o <<10>>]
OpRaw(b) == [op |-> "raw", bytes |-> b]
OpLn(n) == [op |-> "lf", bytes |-> [i \in 1..n |-> 10]]

\* dummy.qr(url, size=8) raises when the url exceeds the QR capacity
QrEncodable(url) == Len(url) <= QrCapacity

LogoStates == {"missing", "ok", "bad"}

\* lines 270-277: optional logo, the separator follows only a loaded image
LogoSection(logoState) ==
    IF logoState = "ok" THEN <<OpImage, OpTextln(Separator)>> ELSE << >>

\* a QR step that leaves an empty symbol behind when encoding fails (the code
\* adds nothing)
QrSectionLeavesStub(url) ==
    IF QrEncodable(url) THEN <<OpQr(url)>> ELSE <<OpQr(Empty)>>

\* lines 278-282: QR of the url, skipped when encoding fails
QrSection(url) ==
    IF QrEncodable(url) THEN <<OpQr(url)>> ELSE << >>

\* a code line without its label
CodeLineBare(code) == OpTextln(code)

\* line 283
CodeLine(code) == OpTextln(CodePrefix \o code)

\* the document without the ESC ! 0 after the enlarged lines
BuildOpsNoReset(url, code, logoState) ==
    <<OpSetCenter>> \o LogoSection(logoState) \o QrSection(url)
    \o <<CodeLine(code), OpTextln(Empty), OpSetNormal,
         OpRaw(<<27, 33, 48>>), OpTextln(TxtScan), OpTextln(TxtDownload),
         OpSetNormal, OpTextln(Empty), OpTextln(Separator), OpTextln(TxtPowered),
         OpTextln(TxtContact), OpTextln(Separator), OpLn(2)>>

\* _build_escpos_bytes_for_ble as the sequence of commands it issues
BuildOps(url, code, logoState) ==
    <<OpSetCenter>> \o LogoSection(logoState) \o QrSection(url)
    \o <<CodeLine(code), OpTextln(Empty), OpSetNormal,
         OpRaw(<<27, 33, 48>>), OpTextln(TxtScan), OpTextln(TxtDownload),
         OpRaw(<<27, 33, 0>>),
         OpSetNormal, OpTextln(Empty), OpTextln(Separator), OpTextln(TxtPowered),
         OpTextln(TxtContact), OpTextln(Separator), OpLn(2)>>

RECURSIVE Flatten(_)
Flatten(ops) == IF ops = << >> THEN << >> ELSE Head(ops).bytes \o Flatten(Tail(ops))

\* dummy.output
build_escpos_bytes_for_ble(url, code, logoState) == Flatten(BuildOps(url, code, logoState))

(***************************************************************************)
(* Chunking of _send: for i in range(0, len(data), chunk): data[i:i+chunk] *)
(***************************************************************************)
\* data[i : j] with 0-based, end-exclusive Python indices
Slice(data, i, j) == SubSeq(data, i + 1, Min(j, Len(data)))

\* a chunk cut one byte short
ChunkAtShort(data, i) == Slice(data, i, i + BLE_CHUNK - 1)

ChunkAt(data, i) == Slice(data, i, i + BLE_CHUNK)

NextOffset(i) == i + BLE_CHUNK

\* a loop that stops before a last, shorter chunk
RangeDoneEarly(data, i) == i + BLE_CHUNK > Len(data)

\* range(0, len(data), chunk) is exhausted at offset i
RangeDone(data, i) == i >= Len(data)

RECURSIVE Concat(_)
Concat(chunks) == IF chunks = << >> THEN << >> ELSE Head(chunks) \o Concat(Tail(chunks))

\* s occurs in d as a contiguous run of bytes
Contains(d, s) ==
    \E k \in 0..(Len(d) - Len(s)) : SubSeq(d, k + 1, k + Len(s)) = s

\* A raw payload of n bytes
Payload(n) == [i \in 1..n |-> i % 256]

(***************************************************************************)
(* The BLE world outside the program: the devices a scan can find and the  *)
(* GATT services each of them exposes.                                     *)
(***************************************************************************)
DevA == [name |-> "PrinterA", address |-> "AA"]
DevB == [name |-> "PrinterB", address |-> "BB"]
ScanLists == {<< >>, <<DevA, DevB>>}

Services(addr) ==
    IF addr = "AA"
    THEN << [uuid |-> "svc1", characteristics |-> << [uuid |-> "c1", properties |-> {"read"}] >>],
            [uuid |-> "svc2", characteristics |->
                << [uuid |-> "c2", properties |-> {"notify"}],
                   [uuid |-> "c3", properties |-> {"write-without-response"}],
                   [uuid |-> "c4", properties |-> {"write"}] >>] >>
    ELSE << [uuid |-> "svc9", characteristics |-> << [uuid |-> "c9", properties |-> {"read", "notify"}] >>] >>

\* a test that misses the write-without-response capability (the code tests both)
WritableWithResponseOnly(char) == "write" \in char.properties

Writable(char) ==
    "write" \in char.properties \/ "write-without-response" \in char.properties

RECURSIVE FirstWritableChar(_)
FirstWritableChar(chars) ==
    IF chars = << >> THEN None
    ELSE IF Writable(Head(chars)) THEN Head(chars).uuid
    ELSE FirstWritableChar(Tail(chars))

\* _detect_uuids, lines 120-134: first writable characteristic in service
\* order then characteristic order, else (None, None)
RECURSIVE detect_uuids(_)
detect_uuids(services) ==
    IF services = << >> THEN <<None, None>>
    ELSE IF FirstWritableChar(Head(services).characteristics) # None
         THEN <<Head(services).uuid, FirstWritableChar(Head(services).characteristics)>>
         ELSE detect_uuids(Tail(services))

(***************************************************************************)
(* The USB world outside the program: the devices usb.core.find returns,   *)
(* their descriptors and the endpoints of interface 0, alternate 0.        *)
(***************************************************************************)
USB_CHUNK == 8192           \* chunk_size = 8192

\* self.thermal_vendor_ids, lines 38-47
thermal_vendor_ids == {1046, 4070, 10473, 1208, 1659, 26728, 8137, 1155}

\* a device on the bus: descriptor fields, whether reading a field raises
\* USBError, whether reading a string descriptor raises (USBError or
\* ValueError: "usb_error"; any other exception: "error"), and the endpoint
\* addresses of interface (0, 0) in enumeration order (bit 7 set: IN)
UsbEpson ==
    [id |-> 1, idVendor |-> 1208, idProduct |-> 514, access |-> "ok", strings |-> "ok",
     manufacturer |-> "EPSON", product |-> "TM-T20", serial |-> "",
     endpoints |-> <<129, 2, 3>>]
UsbGeneric ==
    [id |-> 2, idVendor |-> 26728, idProduct |-> 1280, access |-> "ok", strings |-> "usb_error",
     manufacturer |-> "X", product |-> "Y", serial |-> "Z",
     endpoints |-> <<129>>]
UsbMouse ==
    [id |-> 3, idVendor |-> 1133, idProduct |-> 49271, access |-> "ok", strings |-> "ok",
     manufacturer |-> "Logi", product |-> "Mouse", serial |-> "",
     endpoints |-> <<129>>]
UsbLocked ==
    [id |-> 4, idVendor |-> 1155, idProduct |-> 22336, access |-> "usb_error", strings |-> "ok",
     manufacturer |-> "ST", product |-> "POS", serial |-> "7",
     endpoints |-> <<1>>]
UsbNoDriver ==
    [id |-> 5, idVendor |-> 1046, idProduct |-> 20497, access |-> "ok", strings |-> "error",
     manufacturer |-> "S", product |-> "LK", serial |-> "1",
     endpoints |-> <<1>>]
UsbBus == <<UsbMouse, UsbEpson, UsbLocked, UsbNoDriver, UsbGeneric>>
UsbBuses == {<< >>, UsbBus}
UsbDevice(id) == CHOOSE d \in {UsbBus[j] : j \in 1..Len(UsbBus)} : d.id = id

\* usb.util.endpoint_direction(address) == usb.util.ENDPOINT_OUT
ENDPOINT_OUT == 0
endpoint_direction(address) == (address \div 128) * 128
IsOut(address) == endpoint_direction(address) = ENDPOINT_OUT

\* ep_out = None, line 526
NoEndpoint == 0

\* lines 526-533: the first OUT endpoint in enumeration order, else None
RECURSIVE FirstOut(_)
FirstOut(eps) ==
    IF eps = << >> THEN NoEndpoint
    ELSE IF IsOut(Head(eps)) THEN Head(eps)
    ELSE FirstOut(Tail(eps))

\* lines 371-389: a string descriptor, its default when the index is 0, and
\* the defaults for all three when reading one raises
Descriptor(d, field, default) ==
    IF d.strings # "ok" \/ d[field] = "" THEN default ELSE d[field]

\* lines 391-399
printer_info(d) ==
    [vendor_id |-> d.idVendor, product_id |-> d.idProduct,
     manufacturer |-> Descriptor(d, "manufacturer", "Unknown"),
     product |-> Descriptor(d, "product", "Thermal Printer"),
     serial |-> Descriptor(d, "serial", "N/A"),
     device |-> d.id,
     display_name |-> <<Descriptor(d, "manufacturer", "Unknown"),
                        Descriptor(d, "product", "Thermal Printer"),
                        d.idVendor, d.idProduct>>]

\* lines 367-369
IsThermal(d) ==
    \/ d.idVendor \in thermal_vendor_ids
    \/ d.idVendor = 26728 /\ d.idProduct = 1280

\* lines 366-411: the device is appended unless reading its fields raises
\* USBError (406-408) or reading its strings raises something that is neither
\* USBError nor ValueError (386 does not catch it, 409-411 does)
Appended(d) == d.access = "ok" /\ IsThermal(d) /\ d.strings \in {"ok", "usb_error"}

\* lines 365-411: the devices of the bus that are kept, in bus order
RECURSIVE FoundPrinters(_)
FoundPrinters(bus) ==
    IF bus = << >> THEN << >>
    ELSE IF Appended(Head(bus))
         THEN <<printer_info(Head(bus))>> \o FoundPrinters(Tail(bus))
         ELSE FoundPrinters(Tail(bus))

(***************************************************************************)
(* config.json and the thermal mode read from it, lines 571-609.           *)
(***************************************************************************)
\* the file is absent, not JSON, JSON without the key, or holds a mode
ConfigStates == {"missing", "corrupt", "nokey", "BLE", "USB", "usb"}

load_thermal_mode(cfg) ==
    IF cfg \in {"missing", "corrupt", "nokey"} THEN "BLE" ELSE cfg

\* mode.upper()
Upper(mode) == IF mode = "usb" THEN "USB" ELSE mode

Routes == {"/thermal", "/thermal/ble", "/thermal/usb"}

\* api.py lines 46-49, 65 and 81: the transport a route hands the job to
Transport(route, cfg) ==
    IF route = "/thermal/usb" THEN "USB"
    ELSE IF route = "/thermal/ble" THEN "BLE"
    ELSE IF Upper(load_thermal_mode(cfg)) = "USB" THEN "USB" ELSE "BLE"

(***************************************************************************)
(* State.                                                                  *)
(***************************************************************************)
VARIABLES
    ble_devices,               \* self.ble_devices
    selected_ble_device_addr,  \* self.selected_ble_device_addr
    ble_service_uuid,          \* self.ble_service_uuid
    ble_char_uuid,             \* self.ble_char_uuid
    ble_client,                \* self.ble_client: a BleakClient handle or None
    ble_connected,             \* self.ble_connected
    ble_connection_lock,       \* self.ble_connection_lock: the task holding it
    ble_event_loop,            \* self.ble_event_loop: the loop of that thread
    loops,                     \* threads whose event loop has been created
    runner,                    \* runner[l]: the thread driving loop l
    tasks,                     \* coroutines scheduled on the loops
    th,                        \* the threads: position and locals
    links,                     \* the BleakClient objects created so far
    connectCalls,              \* BleakClient.connect() calls made so far
    wseq,                      \* unfinished sends in the order their chunks reached the device
    interleaved,               \* a chunk of one send arrived between two chunks of another
    budget,                    \* scans, selections and requests still to come
    nsel, nreq,                \* detection threads started, requests accepted
    logo,                      \* assets/logo.png: missing, ok or unreadable
    usb_devices,               \* self.usb_devices
    selected_usb_device,       \* self.selected_usb_device
    config,                    \* config.json as far as thermal_mode goes
    job,                       \* per request thread: route, mode and the locals of _send_usb_escpos
    ubudget                    \* USB scans, selections, mode changes and routed requests still to come

vars == <<ble_devices, selected_ble_device_addr, ble_service_uuid, ble_char_uuid,
          ble_client, ble_connected, ble_connection_lock, ble_event_loop, loops,
          runner, tasks, th, links, connectCalls, wseq, interleaved, budget, nsel,
          nreq, logo, usb_devices, selected_usb_device, config, job, ubudget>>

usbVars == <<usb_devices, selected_usb_device, config, job, ubudget>>

selVars == <<ble_devices, selected_ble_device_addr, ble_service_uuid, ble_char_uuid>>
cntVars == <<budget, nsel, nreq, logo>>

\* what the environment still does in one behaviour
Load(scans, selects, clears, requests, rejects) ==
    [scans |-> scans, selects |-> selects, clears |-> clears, requests |-> requests,
     rejects |-> rejects]

\* the workloads explored from construction: repeated selection, one request
\* around a cleared selection, concurrent requests, and a selection cleared
\* repeatedly
Workloads ==
    {Load(MaxScans, MaxSelects, 0, 0, 0),
     Load(MaxScans, 1, MaxClears, 1, MaxRejects),
     Load(MaxScans, 1, 0, MaxRequests, 0),
     Load(MaxScans, 1, MaxDisconnects, 0, 0)}

\* what the environment still does on the USB side and through the routes
ULoad(scans, selects, modes, requests) ==
    [scans |-> scans, selects |-> selects, modes |-> modes, requests |-> requests]

\* self.selected_usb_device = None, line 35
NoUsbDevice == 0
NoPrinter == [device |-> NoUsbDevice]

\* no request context: route and mode of the handler, and the locals of
\* _send_usb_escpos with the writes and releases made on the device
IdleJob ==
    [route |-> "", mode |-> "", device |-> NoUsbDevice, ep |-> NoEndpoint, i |-> 0,
     total_sent |-> 0, raised |-> "", log |-> << >>]

\* lines 34-35: no USB device known or selected, no request in progress
UsbFresh ==
    /\ usb_devices = << >>
    /\ selected_usb_device = NoPrinter
    /\ job = [t \in Workers |-> IdleJob]

IdleThread ==
    [pc |-> "idle", task |-> NoTask, req |-> 0, code |-> Empty, data |-> Empty,
     status |-> 0, err |-> "", written |-> << >>, connect |-> "", h |-> NoClient,
     attempts |-> 0]

\* Thermal.__init__, lines 20-35
Init ==
    /\ ble_devices = << >>
    /\ selected_ble_device_addr = None
    /\ ble_service_uuid = ""
    /\ ble_char_uuid = ""
    /\ ble_client = NoClient
    /\ ble_connected = FALSE
    /\ ble_connection_lock = NoTask
    /\ ble_event_loop = NoThread
    /\ loops = {}
    /\ runner = [t \in Threads |-> NoThread]
    /\ tasks = << >>
    /\ th = [t \in Threads |-> IF t \in Detectors THEN [IdleThread EXCEPT !.pc = "unborn"]
                                ELSE IdleThread]
    /\ links = << >>
    /\ connectCalls = 0
    /\ wseq = << >>
    /\ interleaved = FALSE
    /\ budget \in Workloads
    /\ nsel = 0 /\ nreq = 0
    /\ logo \in LogoStates
    /\ UsbFresh
    /\ config = "missing"
    /\ ubudget = ULoad(0, 0, 0, 0)

(***************************************************************************)
(* Helpers on threads and tasks.                                           *)
(***************************************************************************)
Done(r, status, err) ==
    [r EXCEPT !.pc = "done", !.status = status, !.err = err, !.task = NoTask]

\* what the caller of connect_ble does with (success, error):
\* _send_ble_escpos lines 308-310, detection_worker lines 102-105
AfterConnect(r, t, ok, msg) ==
    IF ok THEN [r EXCEPT !.pc = IF t \in Workers THEN "send_dispatch" ELSE "detect",
                         !.task = NoTask, !.connect = msg]
    ELSE IF t \in Workers THEN [Done(r, 500, msg) EXCEPT !.connect = msg]
    ELSE [r EXCEPT !.pc = "dead", !.task = NoTask, !.connect = msg]

\* _send_ble_escpos lines 341-350 and print_thermal_ble lines 257-263
AfterSend(r, ok, err, w) ==
    [Done(r, IF ok THEN 200 ELSE 500, err) EXCEPT !.written = w]

\* disconnect_ble line 237 returning to on_ble_selected
AfterDisconnect(r, ok, err) ==
    [r EXCEPT !.pc = "idle", !.task = NoTask, !.err = err]

AfterCall(r, t, kind, ok, err, w) ==
    IF kind = "connect" THEN AfterConnect(r, t, ok, err)
    ELSE IF kind = "send" THEN AfterSend(r, ok, err, w)
    ELSE AfterDisconnect(r, ok, err)

NewTaskId == CHOOSE i \in 1..MaxTasks : i \notin DOMAIN tasks /\ \A j \in 1..(i - 1) : j \in DOMAIN tasks

CanSpawn == Cardinality(DOMAIN tasks) < MaxTasks

NewTask(kind, l, owner, waiter, req, data) ==
    [kind |-> kind, loop |-> l, owner |-> owner, waiter |-> waiter, req |-> req,
     pc |-> "start", h |-> NoClient, data |-> data, i |-> 0, written |-> << >>]

Spawn(task) == tasks @@ (NewTaskId :> task)

\* a coroutine advances only while some thread drives its loop
Runnable(k) == k \in DOMAIN tasks /\ runner[tasks[k].loop] # NoThread

\* A coroutine returns (or raises): run_until_complete stops the loop and
\* hands the result to its caller; a future waited on with result(timeout)
\* wakes its waiter; the result of a bare create_task is dropped.
FinishTasks(k) == [j \in DOMAIN tasks \ {k} |-> tasks[j]]

FinishRunner(k) ==
    IF tasks[k].waiter = "run_until_complete"
    THEN [runner EXCEPT ![tasks[k].loop] = NoThread] ELSE runner

FinishTh(k, ok, err, w) ==
    IF tasks[k].waiter = "none" THEN th
    ELSE [th EXCEPT ![tasks[k].owner] = AfterCall(@, tasks[k].owner, tasks[k].kind, ok, err, w)]

Finish(k, ok, err, w) ==
    /\ tasks' = FinishTasks(k)
    /\ runner' = FinishRunner(k)
    /\ th' = FinishTh(k, ok, err, w)

\* coroutine k calls BleakClient.connect(): counted against the request it
\* serves while that request is still being handled
Attempted(k) ==
    IF tasks[k].req # 0 /\ th[tasks[k].owner].req = tasks[k].req
    THEN [th EXCEPT ![tasks[k].owner].attempts = @ + 1]
    ELSE th

LockFree == ble_connection_lock = NoTask

\* the lock is held by a coroutine of another event loop
LockForeign(k) ==
    /\ ble_connection_lock # NoTask
    /\ tasks[ble_connection_lock].loop # tasks[k].loop

connVars == <<ble_client, ble_connected, ble_connection_lock>>
loopVars == <<ble_event_loop, loops, runner>>
logVars == <<wseq, interleaved>>
worldVars == <<links, connectCalls, wseq, interleaved>>

(***************************************************************************)
(* The user interface thread: scan and selection.                          *)
(***************************************************************************)
\* scan_ble_thermal, lines 49-81: asyncio.run raising leaves the list alone,
\* every other outcome replaces it by the devices found (none on a failure
\* inside _scan, which returns [])
scan_ble_thermal(raised, found) ==
    /\ budget.scans > 0
    /\ budget' = [budget EXCEPT !.scans = @ - 1]
    /\ ble_devices' = IF raised THEN ble_devices ELSE found
    /\ UNCHANGED <<selected_ble_device_addr, ble_service_uuid, ble_char_uuid,
                   connVars, loopVars, tasks, th, worldVars, nsel, nreq, logo>>
    /\ UNCHANGED usbVars

\* on_ble_selected, lines 83-87: an index out of range clears the selection
\* and runs disconnect_ble (lines 230-237) on the caller's own event loop
SelectNone(index) ==
    /\ th[GuiThread].pc = "idle"
    /\ index < 0 \/ index >= Len(ble_devices)
    /\ budget.clears > 0 /\ CanSpawn
    /\ budget' = [budget EXCEPT !.clears = @ - 1]
    /\ selected_ble_device_addr' = None
    /\ loops' = loops \cup {GuiThread}
    /\ IF runner[GuiThread] # NoThread
       THEN /\ th' = [th EXCEPT ![GuiThread] = AfterDisconnect(@, FALSE, "loop_running")]
            /\ UNCHANGED <<runner, tasks>>
       ELSE /\ runner' = [runner EXCEPT ![GuiThread] = GuiThread]
            /\ tasks' = Spawn(NewTask("disconnect", GuiThread, GuiThread, "run_until_complete", 0, Empty))
            /\ th' = [th EXCEPT ![GuiThread] = [@ EXCEPT !.pc = "disconnect_wait", !.task = NewTaskId, !.err = ""]]
    /\ UNCHANGED <<ble_devices, ble_service_uuid, ble_char_uuid, connVars, ble_event_loop,
                   worldVars, nsel, nreq, logo>>
    /\ UNCHANGED usbVars

\* on_ble_selected, lines 88-172: an index in range selects that device and
\* starts a detection thread
SelectDevice(index) ==
    /\ th[GuiThread].pc = "idle"
    /\ index >= 0 /\ index < Len(ble_devices)
    /\ budget.selects > 0
    /\ budget' = [budget EXCEPT !.selects = @ - 1]
    /\ nsel' = nsel + 1
    /\ selected_ble_device_addr' = ble_devices[index + 1].address
    /\ th' = [th EXCEPT ![<<"d", nsel + 1>>] = [IdleThread EXCEPT !.pc = "spawned"]]
    /\ UNCHANGED <<ble_devices, ble_service_uuid, ble_char_uuid, connVars, loopVars, tasks,
                   worldVars, nreq, logo>>
    /\ UNCHANGED usbVars

(***************************************************************************)
(* connect_ble, lines 174-188, as called by thread t.                      *)
(***************************************************************************)
\* lines 175-185: the caller's own loop is stored; when it is already being
\* driven the connect is only scheduled and success is returned at once
connect_ble(t) ==
    /\ loops' = loops \cup {t}
    /\ ble_event_loop' = t
    /\ IF runner[t] # NoThread
       THEN /\ CanSpawn
            /\ tasks' = Spawn(NewTask("connect", t, t, "none", th[t].req, Empty))
            /\ th' = [th EXCEPT ![t] = AfterConnect(@, t, TRUE, "Connecting...")]
       ELSE /\ th' = [th EXCEPT ![t] = [@ EXCEPT !.pc = "connect_run"]]
            /\ UNCHANGED tasks
    /\ UNCHANGED <<selVars, connVars, runner, worldVars, cntVars>>

\* line 187: loop.run_until_complete(self._connect_ble_async())
ConnectRun(t) ==
    /\ th[t].pc = "connect_run"
    /\ IF runner[t] # NoThread
       THEN /\ th' = [th EXCEPT ![t] = AfterConnect(@, t, FALSE, "loop_running")]
            /\ UNCHANGED <<runner, tasks>>
       ELSE /\ CanSpawn
            /\ runner' = [runner EXCEPT ![t] = t]
            /\ tasks' = Spawn(NewTask("connect", t, t, "run_until_complete", th[t].req, Empty))
            /\ th' = [th EXCEPT ![t] = [@ EXCEPT !.pc = "connect_wait", !.task = NewTaskId]]
    /\ UNCHANGED <<selVars, connVars, ble_event_loop, loops, worldVars, cntVars>>
    /\ UNCHANGED usbVars

\* detection_worker, line 102
DetectorStart(t) ==
    /\ t \in Detectors
    /\ th[t].pc = "spawned"
    /\ connect_ble(t)
    /\ UNCHANGED usbVars

(***************************************************************************)
(* The request threads: handle_thermal_ble / handle_thermal in BLE mode,   *)
(* print_thermal_ble and _send_ble_escpos.                                 *)
(***************************************************************************)
\* waitress hands a request to any idle worker thread; the threads are
\* interchangeable until first used, so a fresh one is taken in index order
Available(t) ==
    /\ t \in Workers
    /\ th[t].pc = "idle"
    /\ \/ t \in loops
       \/ \A u \in Workers : u[2] < t[2] => (u \in loops \/ th[u].pc # "idle")

\* a refusal that looks at the UUIDs before the selection
RefuseBleUuidFirst(t, url, code) ==
    /\ Available(t)
    /\ url = Empty \/ code = Empty \/ selected_ble_device_addr = None
       \/ ble_service_uuid = "" \/ ble_char_uuid = ""
    /\ budget.rejects > 0
    /\ budget' = [budget EXCEPT !.rejects = @ - 1]
    /\ th' = [th EXCEPT ![t] =
          IF url = Empty \/ code = Empty THEN Done(@, 400, "'url' and 'code' are required")
          ELSE IF ble_service_uuid = "" \/ ble_char_uuid = ""
          THEN Done(@, 500, "BLE Service/Characteristic UUID not set")
          ELSE Done(@, 500, "No BLE printer selected")]
    /\ UNCHANGED <<selVars, connVars, loopVars, tasks, worldVars, nsel, nreq, logo>>

\* api.py lines 58-62 and thermal.py lines 245-252: a request that is turned
\* away before anything is built
RefuseBle(t, url, code) ==
    /\ Available(t)
    /\ url = Empty \/ code = Empty \/ selected_ble_device_addr = None
       \/ ble_service_uuid = "" \/ ble_char_uuid = ""
    /\ budget.rejects > 0
    /\ budget' = [budget EXCEPT !.rejects = @ - 1]
    /\ th' = [th EXCEPT ![t] =
          IF url = Empty \/ code = Empty THEN Done(@, 400, "'url' and 'code' are required")
          ELSE IF selected_ble_device_addr = None THEN Done(@, 500, "No BLE printer selected")
          ELSE Done(@, 500, "BLE Service/Characteristic UUID not set")]
    /\ UNCHANGED <<selVars, connVars, loopVars, tasks, worldVars, nsel, nreq, logo>>

\* a refused request on the BLE path, with the USB side and the routes left
\* out of the picture
Reject(t, url, code) ==
    /\ RefuseBle(t, url, code)
    /\ UNCHANGED usbVars

\* api.py lines 58-65 and thermal.py lines 241-256: a request that passes the
\* checks; the document is built and _send_ble_escpos is entered
PrintBle(t, url, code) ==
    /\ Available(t)
    /\ url # Empty /\ code # Empty /\ selected_ble_device_addr # None
    /\ ble_service_uuid # "" /\ ble_char_uuid # ""
    /\ budget.requests > 0
    /\ budget' = [budget EXCEPT !.requests = @ - 1]
    /\ nreq' = nreq + 1
    /\ th' = [th EXCEPT ![t] = [@ EXCEPT !.pc = "send_entry", !.req = nreq + 1, !.code = code,
                                      !.data = build_escpos_bytes_for_ble(url, code, logo)]]
    /\ UNCHANGED <<selVars, connVars, loopVars, tasks, worldVars, nsel, logo>>

\* an accepted request on the BLE path, with the USB side and the routes
\* left out of the picture
Request(t, url, code) ==
    /\ PrintBle(t, url, code)
    /\ UNCHANGED usbVars

\* _send_ble_escpos, lines 307-310
SendEntry(t) ==
    /\ t \in Workers
    /\ th[t].pc = "send_entry"
    /\ IF ble_client = NoClient \/ ~ble_connected
       THEN connect_ble(t)
       ELSE /\ th' = [th EXCEPT ![t] = [@ EXCEPT !.pc = "send_dispatch"]]
            /\ UNCHANGED <<selVars, connVars, loopVars, tasks, worldVars, cntVars>>
    /\ UNCHANGED usbVars

\* lines 334-339: with the stored loop running the coroutine is handed to it
\* and the caller waits on the future
SendDispatch(t) ==
    /\ th[t].pc = "send_dispatch"
    /\ IF ble_event_loop = NoThread
       THEN /\ th' = [th EXCEPT ![t] = Done(@, 500, "No event loop")]
            /\ UNCHANGED tasks
       ELSE IF runner[ble_event_loop] # NoThread
       THEN /\ CanSpawn
            /\ tasks' = Spawn(NewTask("send", ble_event_loop, t, "result", th[t].req, th[t].data))
            /\ th' = [th EXCEPT ![t] = [@ EXCEPT !.pc = "send_wait", !.task = NewTaskId]]
       ELSE /\ th' = [th EXCEPT ![t] = [@ EXCEPT !.pc = "send_run"]]
            /\ UNCHANGED tasks
    /\ UNCHANGED <<selVars, connVars, loopVars, worldVars, cntVars>>
    /\ UNCHANGED usbVars

\* line 348: self.ble_event_loop.run_until_complete(_send())
SendRun(t) ==
    /\ th[t].pc = "send_run"
    /\ IF runner[ble_event_loop] # NoThread
       THEN /\ th' = [th EXCEPT ![t] = Done(@, 500, "loop_running")]
            /\ UNCHANGED <<runner, tasks>>
       ELSE /\ CanSpawn
            /\ runner' = [runner EXCEPT ![ble_event_loop] = t]
            /\ tasks' = Spawn(NewTask("send", ble_event_loop, t, "run_until_complete", th[t].req, th[t].data))
            /\ th' = [th EXCEPT ![t] = [@ EXCEPT !.pc = "send_wait", !.task = NewTaskId]]
    /\ UNCHANGED <<selVars, connVars, ble_event_loop, loops, worldVars, cntVars>>
    /\ UNCHANGED usbVars

\* lines 341-345: future.result(timeout=30) gives up; the coroutine is not
\* cancelled and nothing else is changed
SendTimeout(t) ==
    /\ th[t].pc = "send_wait"
    /\ th[t].task \in DOMAIN tasks
    /\ tasks[th[t].task].waiter = "result"
    /\ tasks' = [tasks EXCEPT ![th[t].task].waiter = "none"]
    /\ th' = [th EXCEPT ![t] = [Done(@, 500, "timeout") EXCEPT !.written = tasks[th[t].task].written]]
    /\ UNCHANGED <<selVars, connVars, loopVars, worldVars, cntVars>>
    /\ UNCHANGED usbVars

\* the handler returns its response, its locals are gone and the thread takes
\* the next request
Return(t) ==
    /\ th[t].pc = "done"
    /\ th' = [th EXCEPT ![t] = IdleThread]
    /\ job' = [job EXCEPT ![t] = IdleJob]
    /\ UNCHANGED <<selVars, connVars, loopVars, tasks, worldVars, cntVars>>
    /\ UNCHANGED <<usb_devices, selected_usb_device, config, ubudget>>

(***************************************************************************)
(* _connect_ble_async, lines 190-216.                                      *)
(***************************************************************************)
\* a connect that never takes the short cut
NeverAlreadyConnected == FALSE

\* line 196: if self.ble_client and self.ble_connected
AlreadyConnected == ble_client # NoClient /\ ble_connected

\* lines 196-203, run with the lock just acquired by coroutine k
ConnectLocked(k) ==
    IF AlreadyConnected
    THEN /\ Finish(k, TRUE, "Already connected", << >>)
         /\ ble_connection_lock' = NoTask
         /\ UNCHANGED <<ble_client, ble_connected, links, connectCalls>>
    ELSE /\ links' = Append(links, [addr |-> selected_ble_device_addr, state |-> "connecting"])
         /\ ble_client' = Len(links) + 1
         /\ connectCalls' = connectCalls + 1
         /\ ble_connection_lock' = k
         /\ tasks' = [tasks EXCEPT ![k].pc = "await_connect", ![k].h = Len(links) + 1]
         /\ th' = Attempted(k)
         /\ UNCHANGED <<ble_connected, runner>>

\* lines 191-195: no device selected, or the lock is taken or waited for
ConnectEnter(k) ==
    /\ Runnable(k)
    /\ tasks[k].kind = "connect" /\ tasks[k].pc = "start"
    /\ IF selected_ble_device_addr = None
       THEN /\ Finish(k, FALSE, "No BLE device selected", << >>)
            /\ UNCHANGED <<connVars, links, connectCalls>>
       ELSE IF LockFree
       THEN ConnectLocked(k)
       ELSE /\ tasks' = [tasks EXCEPT ![k].pc = "lock_wait"]
            /\ UNCHANGED <<connVars, links, connectCalls, th, runner>>
    /\ UNCHANGED <<selVars, ble_event_loop, loops, logVars, cntVars>>
    /\ UNCHANGED usbVars

\* line 195 once the holder has released the lock
ConnectAcquire(k) ==
    /\ Runnable(k)
    /\ tasks[k].kind = "connect" /\ tasks[k].pc = "lock_wait"
    /\ LockFree
    /\ ConnectLocked(k)
    /\ UNCHANGED <<selVars, ble_event_loop, loops, logVars, cntVars>>
    /\ UNCHANGED usbVars

\* line 195 raising: an asyncio.Lock contended from a second event loop
\* raises RuntimeError, which lines 212-216 turn into a failed connect
ConnectLockError(k) ==
    /\ Runnable(k)
    /\ tasks[k].kind = "connect" /\ tasks[k].pc = "start"
    /\ selected_ble_device_addr # None
    /\ LockForeign(k)
    /\ ble_connected' = FALSE
    /\ Finish(k, FALSE, "BLE connection failed", << >>)
    /\ UNCHANGED <<selVars, ble_client, ble_connection_lock, ble_event_loop, loops,
                   worldVars, cntVars>>
    /\ UNCHANGED usbVars

\* lines 203-216: the awaited BleakClient.connect() ends
ConnectDone(k, outcome) ==
    /\ Runnable(k)
    /\ tasks[k].kind = "connect" /\ tasks[k].pc = "await_connect"
    /\ ble_connection_lock' = NoTask
    /\ IF outcome = "ok"
       THEN /\ links[tasks[k].h].addr # None
            /\ links' = [links EXCEPT ![tasks[k].h].state = "open"]
            /\ ble_connected' = TRUE
            /\ Finish(k, TRUE, None, << >>)
       ELSE /\ links' = [links EXCEPT ![tasks[k].h].state = "closed"]
            /\ ble_connected' = FALSE
            /\ Finish(k, FALSE, IF outcome = "timeout"
                                THEN "BLE connection timeout (10s) - device may be out of range"
                                ELSE "BLE connection failed", << >>)
    /\ UNCHANGED <<selVars, ble_client, ble_event_loop, loops, connectCalls, logVars, cntVars>>
    /\ UNCHANGED usbVars

(***************************************************************************)
(* _disconnect_ble_async, lines 218-228.                                   *)
(***************************************************************************)
\* a disconnect that closes any handle it finds, whatever the flag says
DisconnectLockedAnyHandle(k) ==
    IF ble_client # NoClient
    THEN /\ ble_connection_lock' = k
         /\ tasks' = [tasks EXCEPT ![k].pc = "await_close", ![k].h = ble_client]
         /\ UNCHANGED <<th, runner>>
    ELSE /\ ble_connection_lock' = NoTask
         /\ Finish(k, TRUE, "", << >>)

\* line 220 with the lock just acquired
DisconnectLocked(k) ==
    IF ble_client # NoClient /\ ble_connected
    THEN /\ ble_connection_lock' = k
         /\ tasks' = [tasks EXCEPT ![k].pc = "await_close", ![k].h = ble_client]
         /\ UNCHANGED <<th, runner>>
    ELSE /\ ble_connection_lock' = NoTask
         /\ Finish(k, TRUE, "", << >>)

DisconnectEnter(k) ==
    /\ Runnable(k)
    /\ tasks[k].kind = "disconnect" /\ tasks[k].pc = "start"
    /\ IF LockFree
       THEN DisconnectLocked(k)
       ELSE /\ tasks' = [tasks EXCEPT ![k].pc = "lock_wait"]
            /\ UNCHANGED <<ble_connection_lock, th, runner>>
    /\ UNCHANGED <<selVars, ble_client, ble_connected, ble_event_loop, loops, worldVars, cntVars>>
    /\ UNCHANGED usbVars

DisconnectAcquire(k) ==
    /\ Runnable(k)
    /\ tasks[k].kind = "disconnect" /\ tasks[k].pc = "lock_wait"
    /\ LockFree
    /\ DisconnectLocked(k)
    /\ UNCHANGED <<selVars, ble_client, ble_connected, ble_event_loop, loops, worldVars, cntVars>>
    /\ UNCHANGED usbVars

\* line 219 raising RuntimeError, which nothing catches: disconnect_ble raises
DisconnectLockError(k) ==
    /\ Runnable(k)
    /\ tasks[k].kind = "disconnect" /\ tasks[k].pc = "start"
    /\ LockForeign(k)
    /\ Finish(k, FALSE, "RuntimeError", << >>)
    /\ UNCHANGED <<selVars, connVars, ble_event_loop, loops, worldVars, cntVars>>
    /\ UNCHANGED usbVars

\* lines 221-228: the awaited BleakClient.disconnect() returns or raises, and
\* the finally clause clears the flag and the handle; or it never returns
DisconnectDone(k, outcome) ==
    /\ Runnable(k)
    /\ tasks[k].kind = "disconnect" /\ tasks[k].pc = "await_close"
    /\ IF outcome = "hang"
       THEN /\ tasks' = [tasks EXCEPT ![k].pc = "hung_close"]
            /\ UNCHANGED <<connVars, links, th, runner>>
       ELSE /\ links' = IF outcome = "ok" THEN [links EXCEPT ![tasks[k].h].state = "closed"]
                        ELSE links
            /\ ble_connected' = FALSE
            /\ ble_client' = NoClient
            /\ ble_connection_lock' = NoTask
            /\ Finish(k, TRUE, "", << >>)
    /\ UNCHANGED <<selVars, ble_event_loop, loops, connectCalls, logVars, cntVars>>
    /\ UNCHANGED usbVars

(***************************************************************************)
(* _send, lines 315-331.                                                   *)
(***************************************************************************)
\* lines 318-319, and the loop of lines 324-328 over an empty payload
SendEnter(k) ==
    /\ Runnable(k)
    /\ tasks[k].kind = "send" /\ tasks[k].pc = "start"
    /\ IF ~ble_connected
       THEN IF ble_client = NoClient
            THEN /\ ble_connected' = FALSE
                 /\ Finish(k, FALSE, "no client", << >>)
                 /\ UNCHANGED connectCalls
            ELSE /\ connectCalls' = connectCalls + 1
                 /\ tasks' = [tasks EXCEPT ![k].pc = "await_connect", ![k].h = ble_client]
                 /\ th' = Attempted(k)
                 /\ UNCHANGED <<ble_connected, runner>>
       ELSE /\ IF RangeDone(tasks[k].data, 0)
               THEN Finish(k, TRUE, "", << >>)
               ELSE /\ tasks' = [tasks EXCEPT ![k].pc = "write"]
                    /\ UNCHANGED <<th, runner>>
            /\ UNCHANGED <<ble_connected, connectCalls>>
    /\ UNCHANGED <<selVars, ble_client, ble_connection_lock, ble_event_loop, loops, links,
                   logVars, cntVars>>
    /\ UNCHANGED usbVars

\* lines 319-320: the awaited connect ends (no timeout bounds it)
SendConnectDone(k, outcome) ==
    /\ Runnable(k)
    /\ tasks[k].kind = "send" /\ tasks[k].pc = "await_connect"
    /\ IF outcome = "ok"
       THEN /\ links[tasks[k].h].addr # None
            /\ links' = [links EXCEPT ![tasks[k].h].state = "open"]
            /\ ble_connected' = TRUE
            /\ IF RangeDone(tasks[k].data, 0)
               THEN Finish(k, TRUE, "", << >>)
               ELSE /\ tasks' = [tasks EXCEPT ![k].pc = "write"]
                    /\ UNCHANGED <<th, runner>>
       ELSE IF outcome = "fail"
       THEN /\ ble_connected' = FALSE
            /\ Finish(k, FALSE, "connect failed", << >>)
            /\ UNCHANGED links
       ELSE /\ tasks' = [tasks EXCEPT ![k].pc = "hung_connect"]
            /\ UNCHANGED <<ble_connected, links, th, runner>>
    /\ UNCHANGED <<selVars, ble_client, ble_connection_lock, ble_event_loop, loops,
                   connectCalls, logVars, cntVars>>
    /\ UNCHANGED usbVars

Mark(seq, r) == IF seq # << >> /\ seq[Len(seq)] = r THEN seq ELSE Append(seq, r)

RECURSIVE Squeeze(_)
Squeeze(seq) ==
    IF Len(seq) < 2 THEN seq
    ELSE IF seq[1] = seq[2] THEN Squeeze(Tail(seq))
    ELSE <<seq[1]>> \o Squeeze(Tail(seq))

\* the device log with the chunks of a finished send r dropped
Forget(seq, r) == Squeeze(SelectSeq(seq, LAMBDA x : x # r))

\* some send has two chunks in the log with another send's chunk between them
Interleaved(seq) ==
    \E a, b, c \in 1..Len(seq) : a < b /\ b < c /\ seq[a] = seq[c] /\ seq[a] # seq[b]

\* what one write_gatt_char call hands to the device
WriteRecord(k) ==
    [h |-> ble_client, char |-> ble_char_uuid, off |-> tasks[k].i,
     bytes |-> ChunkAt(tasks[k].data, tasks[k].i)]

\* lines 324-328: write_gatt_char of the chunk at offset i returns; after the
\* last chunk _send returns (True, None)
WriteOk(k) ==
    /\ ble_client # NoClient
    /\ links[ble_client].state = "open"
    /\ interleaved' = (interleaved \/ Interleaved(Mark(wseq, tasks[k].req)))
    /\ IF RangeDone(tasks[k].data, NextOffset(tasks[k].i))
       THEN /\ Finish(k, TRUE, "", Append(tasks[k].written, WriteRecord(k)))
            /\ wseq' = Forget(wseq, tasks[k].req)
       ELSE /\ tasks' = [tasks EXCEPT ![k].i = NextOffset(@),
                                      ![k].written = Append(@, WriteRecord(k))]
            /\ wseq' = Mark(wseq, tasks[k].req)
            /\ UNCHANGED <<th, runner>>
    /\ UNCHANGED ble_connected

\* a failed write that leaves the flag alone
WriteFailKeepsFlag(k) ==
    /\ Finish(k, FALSE, "write failed", tasks[k].written)
    /\ wseq' = Forget(wseq, tasks[k].req)
    /\ UNCHANGED <<ble_connected, interleaved>>

\* lines 329-331: write_gatt_char raises; the flag is cleared and _send
\* returns (False, str(e)) without touching the remaining chunks
WriteFail(k) ==
    /\ ble_connected' = FALSE
    /\ Finish(k, FALSE, "write failed", tasks[k].written)
    /\ wseq' = Forget(wseq, tasks[k].req)
    /\ UNCHANGED interleaved

\* line 327 never returns: nothing bounds the await
WriteHang(k) ==
    /\ ble_client # NoClient
    /\ tasks' = [tasks EXCEPT ![k].pc = "hung_write"]
    /\ UNCHANGED <<ble_connected, logVars, th, runner>>

\* lines 324-331: one pass of the loop over the chunks
Write(k, outcome) ==
    /\ Runnable(k)
    /\ tasks[k].kind = "send" /\ tasks[k].pc = "write"
    /\ IF outcome = "ok" THEN WriteOk(k)
       ELSE IF outcome = "fail" THEN WriteFail(k)
       ELSE WriteHang(k)
    /\ UNCHANGED <<selVars, ble_client, ble_connection_lock, ble_event_loop, loops, links,
                   connectCalls, cntVars>>
    /\ UNCHANGED usbVars

(***************************************************************************)
(* detection_worker after a successful connect, lines 107-163.             *)
(***************************************************************************)
\* lines 111-112: a second BleakClient is opened to the selected address
DetectOpen(t, outcome) ==
    /\ t \in Detectors
    /\ th[t].pc = "detect"
    /\ connectCalls' = connectCalls + 1
    /\ IF outcome = "ok" /\ selected_ble_device_addr # None
       THEN /\ links' = Append(links, [addr |-> selected_ble_device_addr, state |-> "open"])
            /\ th' = [th EXCEPT ![t] = [@ EXCEPT !.pc = "enumerate", !.h = Len(links) + 1]]
       ELSE /\ links' = Append(links, [addr |-> selected_ble_device_addr, state |-> "closed"])
            /\ th' = [th EXCEPT ![t] = [@ EXCEPT !.pc = "dead", !.err = "UUID detection failed"]]
    /\ UNCHANGED <<selVars, connVars, loopVars, tasks, logVars, cntVars>>
    /\ UNCHANGED usbVars

\* lines 113-163: the services are walked and the client closed; the UUIDs
\* are stored only when a writable characteristic was found in time
DetectFinish(t, outcome) ==
    /\ t \in Detectors
    /\ th[t].pc = "enumerate"
    /\ links' = [links EXCEPT ![th[t].h].state = "closed"]
    /\ LET found == detect_uuids(Services(links[th[t].h].addr)) IN
       IF outcome = "ok" /\ found[1] # None /\ found[2] # None
       THEN /\ ble_service_uuid' = found[1]
            /\ ble_char_uuid' = found[2]
            /\ th' = [th EXCEPT ![t] = [@ EXCEPT !.pc = "dead"]]
       ELSE /\ UNCHANGED <<ble_service_uuid, ble_char_uuid>>
            /\ th' = [th EXCEPT ![t] = [@ EXCEPT !.pc = "dead",
                        !.err = IF outcome = "timeout" THEN "UUID detection timeout"
                                ELSE "Failed to auto-detect UUIDs"]]
    /\ UNCHANGED <<ble_devices, selected_ble_device_addr, connVars, loopVars, tasks,
                   connectCalls, logVars, cntVars>>
    /\ UNCHANGED usbVars

(***************************************************************************)
(* The USB side: scan, selection, mode and the routed print requests.      *)
(***************************************************************************)
bleVars == <<selVars, connVars, loopVars, tasks, worldVars, budget, nsel, nreq, logo>>

\* a scan that also forgot the selected device (the code does not)
ScanUsbClearsSelection(raised, bus) ==
    /\ th[GuiThread].pc = "idle"
    /\ ubudget.scans > 0
    /\ ubudget' = [ubudget EXCEPT !.scans = @ - 1]
    /\ usb_devices' = IF raised THEN << >> ELSE FoundPrinters(bus)
    /\ selected_usb_device' = NoPrinter
    /\ UNCHANGED <<bleVars, th, config, job>>

\* scan_usb_thermal, lines 353-414: the list is emptied first; a failing
\* usb.core.find leaves it empty, otherwise the thermal printers found are
\* appended in bus order.  The selection is not touched.
scan_usb_thermal(raised, bus) ==
    /\ th[GuiThread].pc = "idle"
    /\ ubudget.scans > 0
    /\ ubudget' = [ubudget EXCEPT !.scans = @ - 1]
    /\ usb_devices' = IF raised THEN << >> ELSE FoundPrinters(bus)
    /\ UNCHANGED <<bleVars, th, selected_usb_device, config, job>>

\* select_usb_thermal, lines 416-431
select_usb_thermal(index) ==
    /\ th[GuiThread].pc = "idle"
    /\ ubudget.selects > 0
    /\ ubudget' = [ubudget EXCEPT !.selects = @ - 1]
    /\ selected_usb_device' =
          IF index < 0 \/ index >= Len(usb_devices) THEN NoPrinter ELSE usb_devices[index + 1]
    /\ UNCHANGED <<bleVars, th, usb_devices, config, job>>

\* save_thermal_mode, lines 571-592: an unreadable file, or one that cannot
\* be opened for writing, is left as it is; a dump that fails half way leaves
\* a file that is no longer JSON
save_thermal_mode(mode, outcome) ==
    /\ th[GuiThread].pc = "idle"
    /\ ubudget.modes > 0
    /\ ubudget' = [ubudget EXCEPT !.modes = @ - 1]
    /\ config' = IF config = "corrupt" \/ outcome = "open_error" THEN config
                 ELSE IF outcome = "dump_error" THEN "corrupt"
                 ELSE mode
    /\ UNCHANGED <<bleVars, th, usb_devices, selected_usb_device, job>>

\* Printer.save_printer_config, printer.py lines 62-81: the same config.json
\* is opened for writing and the page-printer settings alone are dumped into
\* it; when the file cannot be opened it is left as it is
save_printer_config(outcome) ==
    /\ th[GuiThread].pc = "idle"
    /\ ubudget.modes > 0
    /\ ubudget' = [ubudget EXCEPT !.modes = @ - 1]
    /\ config' = IF outcome = "open_error" THEN config ELSE "nokey"
    /\ UNCHANGED <<bleVars, th, usb_devices, selected_usb_device, job>>

\* _build_escpos_bytes_for_usb, lines 456-499: the same commands as for BLE
build_escpos_bytes_for_usb(url, code, logoState) == Flatten(BuildOps(url, code, logoState))

\* the mode a handler has read: only handle_thermal reads it, and only after
\* the fields were found present (api.py lines 39-44)
ModeRead(route, url, code) ==
    IF route = "/thermal" /\ url # Empty /\ code # Empty
    THEN load_thermal_mode(config) ELSE ""

NewJob(route, url, code) ==
    [IdleJob EXCEPT !.route = route, !.mode = ModeRead(route, url, code)]

\* a request handed to print_thermal_usb (api.py lines 36-47 or 74-81,
\* thermal.py lines 433-442): missing fields give 400, no selected device
\* raises, otherwise the document is built and _send_usb_escpos is entered
UsbPrint(t, route, url, code) ==
    /\ Available(t)
    /\ Transport(route, config) = "USB"
    /\ ubudget.requests > 0
    /\ ubudget' = [ubudget EXCEPT !.requests = @ - 1]
    /\ job' = [job EXCEPT ![t] = NewJob(route, url, code)]
    /\ th' = [th EXCEPT ![t] =
          IF url = Empty \/ code = Empty THEN Done(@, 400, "'url' and 'code' are required")
          ELSE IF selected_usb_device = NoPrinter
          THEN Done(@, 500, "No USB thermal printer selected")
          ELSE [@ EXCEPT !.pc = "usb_send", !.code = code,
                         !.data = build_escpos_bytes_for_usb(url, code, logo)]]
    /\ UNCHANGED <<bleVars, usb_devices, selected_usb_device, config>>

\* a request handed to print_thermal_ble (api.py lines 36-49 or 58-65)
BlePrint(t, route, url, code) ==
    /\ Transport(route, config) = "BLE"
    /\ ubudget.requests > 0
    /\ ubudget' = [ubudget EXCEPT !.requests = @ - 1]
    /\ PrintBle(t, url, code) \/ RefuseBle(t, url, code)
    /\ job' = [job EXCEPT ![t] = NewJob(route, url, code)]
    /\ UNCHANGED <<usb_devices, selected_usb_device, config>>

\* api.py lines 34-53
handle_thermal(t, url, code) ==
    \/ UsbPrint(t, "/thermal", url, code)
    \/ BlePrint(t, "/thermal", url, code)

\* api.py lines 56-69
handle_thermal_ble(t, url, code) == BlePrint(t, "/thermal/ble", url, code)

\* api.py lines 72-85
handle_thermal_usb(t, url, code) == UsbPrint(t, "/thermal/usb", url, code)

(***************************************************************************)
(* _send_usb_escpos, lines 501-568, run by request thread t.               *)
(***************************************************************************)
UsbCall(op, dev, ep, off, bytes, outcome) ==
    [op |-> op, dev |-> dev, ep |-> ep, off |-> off, bytes |-> bytes, outcome |-> outcome]

\* data[i : i + chunk_size]
UsbChunkAt(data, i) == Slice(data, i, i + USB_CHUNK)

\* range(0, len(data), chunk_size) is exhausted at offset i
UsbRangeDone(data, i) == i >= Len(data)

\* a send that does not check whether an OUT endpoint was found
OpenErrorEndpointUnchecked(driver, conf, ep) ==
    IF driver = "error" THEN "is_kernel_driver_active failed"
    ELSE IF conf = "usb_error" THEN "set_configuration failed"
    ELSE ""

\* lines 505-538: what is raised before the first write, if anything; an
\* active kernel driver is detached and a USBError of the detach is ignored,
\* so only a failing is_kernel_driver_active matters
OpenError(driver, conf, ep) ==
    IF driver = "error" THEN "is_kernel_driver_active failed"
    ELSE IF conf = "usb_error" THEN "set_configuration failed"
    ELSE IF ep = NoEndpoint THEN "Could not find OUT endpoint"
    ELSE ""

\* lines 503-538: the device of the selection is taken (outside the try: a
\* selection cleared since the check of line 435 raises here), the driver
\* detached, the configuration set (an error naming "Configuration value" is
\* tolerated) and the OUT endpoint looked up
UsbOpen(t, driver, conf) ==
    /\ t \in Workers
    /\ th[t].pc = "usb_send"
    /\ IF selected_usb_device = NoPrinter
       THEN /\ th' = [th EXCEPT ![t] = Done(@, 500, "'NoneType' object is not subscriptable")]
            /\ UNCHANGED job
       ELSE LET dev == selected_usb_device.device
                ep == FirstOut(UsbDevice(dev).endpoints)
                err == OpenError(driver, conf, ep)
            IN  /\ job' = [job EXCEPT ![t].device = dev,
                                      ![t].ep = IF err = "" THEN ep ELSE NoEndpoint,
                                      ![t].raised = err,
                                      ![t].log = << >>]
                /\ th' = [th EXCEPT ![t].pc =
                            IF err = "" /\ ~UsbRangeDone(th[t].data, 0)
                            THEN "usb_write" ELSE "usb_release"]
    /\ UNCHANGED <<bleVars, usb_devices, selected_usb_device, config, ubudget>>

\* a write loop that goes on after a timeout
UsbWriteKeepsGoing(t, outcome) ==
    LET chunk == UsbChunkAt(th[t].data, job[t].i)
        next == job[t].i + USB_CHUNK
    IN  /\ job' = [job EXCEPT
              ![t].log = Append(@, UsbCall("write", job[t].device, job[t].ep, job[t].i, chunk, outcome)),
              ![t].total_sent = IF outcome = "ok" THEN @ + Len(chunk) ELSE @,
              ![t].i = next,
              ![t].raised = IF outcome = "error" THEN "write raised" ELSE ""]
        /\ th' = [th EXCEPT ![t].pc =
                    IF outcome \in {"ok", "short", "timeout"} /\ ~UsbRangeDone(th[t].data, next)
                    THEN "usb_write" ELSE "usb_release"]

\* lines 544-555, one pass: ep_out.write(chunk, timeout=5000) returns the
\* bytes written, times out or raises USBError (both end the loop without
\* raising), or raises something else (which the outer handler re-raises)
UsbWriteChunk(t, outcome) ==
    LET chunk == UsbChunkAt(th[t].data, job[t].i)
        sent == IF outcome = "ok" THEN Len(chunk)
                ELSE IF outcome = "short" THEN Len(chunk) - 1 ELSE 0
        next == job[t].i + USB_CHUNK
    IN  /\ job' = [job EXCEPT
              ![t].log = Append(@, UsbCall("write", job[t].device, job[t].ep, job[t].i, chunk, outcome)),
              ![t].total_sent = @ + sent,
              ![t].i = IF outcome \in {"ok", "short"} THEN next ELSE @,
              ![t].raised = IF outcome = "error" THEN "write raised" ELSE ""]
        /\ th' = [th EXCEPT ![t].pc =
                    IF outcome \in {"ok", "short"} /\ ~UsbRangeDone(th[t].data, next)
                    THEN "usb_write" ELSE "usb_release"]

UsbWrite(t, outcome) ==
    /\ t \in Workers
    /\ th[t].pc = "usb_write"
    /\ UsbWriteChunk(t, outcome)
    /\ UNCHANGED <<bleVars, usb_devices, selected_usb_device, config, ubudget>>

\* a send that releases the interface only when nothing was raised
UsbReleaseOnSuccessOnly(t, outcome) ==
    /\ t \in Workers
    /\ th[t].pc = "usb_release"
    /\ job' = [job EXCEPT ![t].log =
                  IF job[t].raised = ""
                  THEN Append(@, UsbCall("release_interface", job[t].device, NoEndpoint, 0, Empty, outcome))
                  ELSE @]
    /\ th' = [th EXCEPT ![t] =
                  IF job[t].raised = "" THEN Done(@, 200, "")
                  ELSE Done(@, 500, "Failed to send to USB printer")]
    /\ UNCHANGED <<bleVars, usb_devices, selected_usb_device, config, ubudget>>

\* lines 559-568 and print_thermal_usb lines 447-454: the finally clause
\* releases interface 0, ignoring any error of the release; then what was
\* raised, if anything, reaches the handler, which answers 500
UsbRelease(t, outcome) ==
    /\ t \in Workers
    /\ th[t].pc = "usb_release"
    /\ job' = [job EXCEPT ![t].log =
                  Append(@, UsbCall("release_interface", job[t].device, NoEndpoint, 0, Empty, outcome))]
    /\ th' = [th EXCEPT ![t] =
                  IF job[t].raised = "" THEN Done(@, 200, "")
                  ELSE Done(@, 500, "Failed to send to USB printer")]
    /\ UNCHANGED <<bleVars, usb_devices, selected_usb_device, config, ubudget>>

(***************************************************************************)
(* The program.                                                            *)
(***************************************************************************)
TaskIds == 1..MaxTasks

Next ==
    \/ \E raised \in BOOLEAN, found \in ScanLists : scan_ble_thermal(raised, found)
    \/ \E index \in -1..2 : SelectNone(index)
    \/ \E index \in -1..2 : SelectDevice(index)
    \/ \E t \in Detectors : DetectorStart(t)
    \/ \E t \in Threads : ConnectRun(t)
    \/ \E t \in Workers, url \in Urls, code \in Codes : Reject(t, url, code)
    \/ \E t \in Workers, url \in Urls, code \in Codes : Request(t, url, code)
    \/ \E t \in Workers : SendEntry(t)
    \/ \E t \in Workers : SendDispatch(t)
    \/ \E t \in Workers : SendRun(t)
    \/ \E t \in Workers : SendTimeout(t)
    \/ \E t \in Workers : Return(t)
    \/ \E k \in TaskIds : ConnectEnter(k)
    \/ \E k \in TaskIds : ConnectAcquire(k)
    \/ \E k \in TaskIds : ConnectLockError(k)
    \/ \E k \in TaskIds, o \in {"ok", "timeout", "fail"} : ConnectDone(k, o)
    \/ \E k \in TaskIds : DisconnectEnter(k)
    \/ \E k \in TaskIds : DisconnectAcquire(k)
    \/ \E k \in TaskIds : DisconnectLockError(k)
    \/ \E k \in TaskIds, o \in {"ok", "raise", "hang"} : DisconnectDone(k, o)
    \/ \E k \in TaskIds : SendEnter(k)
    \/ \E k \in TaskIds, o \in {"ok", "fail", "hang"} : SendConnectDone(k, o)
    \/ \E k \in TaskIds, o \in {"ok", "fail", "hang"} : Write(k, o)
    \/ \E t \in Detectors, o \in {"ok", "fail"} : DetectOpen(t, o)
    \/ \E t \in Detectors, o \in {"ok", "fail", "timeout"} : DetectFinish(t, o)

Spec == Init /\ [][Next]_vars

(***************************************************************************)
(* States of a running service from which longer scenarios are explored.   *)
(* Each is a state of Spec: TLC reaches ReachedReadyDetected,              *)
(* ReachedReadyDropped and ReachedReadyReconnected from Init.              *)
(***************************************************************************)
DetectedUuids == detect_uuids(Services(DevA.address))

\* the threads once the first detection thread has ended successfully
ThreadsAfterDetection ==
    [t \in Threads |->
        IF t = <<"d", 1>> THEN [IdleThread EXCEPT !.pc = "dead", !.connect = None, !.h = 2]
        ELSE IF t \in Detectors THEN [IdleThread EXCEPT !.pc = "unborn"]
        ELSE IdleThread]

\* PrinterA selected, connected by its detection thread and its UUIDs
\* detected; no call in progress
Ready(client, connected, stored, lks, calls, reqs) ==
    /\ ble_devices = <<DevA, DevB>>
    /\ selected_ble_device_addr = DevA.address
    /\ ble_service_uuid = DetectedUuids[1]
    /\ ble_char_uuid = DetectedUuids[2]
    /\ ble_client = client
    /\ ble_connected = connected
    /\ ble_connection_lock = NoTask
    /\ ble_event_loop = stored
    /\ loops = {<<"d", 1>>, stored}
    /\ runner = [t \in Threads |-> NoThread]
    /\ tasks = << >>
    /\ links = lks
    /\ connectCalls = calls
    /\ wseq = << >>
    /\ interleaved = FALSE
    /\ nsel = 1
    /\ nreq = reqs

LinkOpen == [addr |-> DevA.address, state |-> "open"]
LinkClosed == [addr |-> DevA.address, state |-> "closed"]

\* right after the detection thread has ended
ReadyDetected == Ready(1, TRUE, <<"d", 1>>, <<LinkOpen, LinkClosed>>, 2, 0)

\* after one request whose write failed
ReadyDropped == Ready(1, FALSE, <<"d", 1>>, <<LinkOpen, LinkClosed>>, 2, 1)

\* after a second request, served by worker 1, which reconnected and printed
ReadyReconnected ==
    Ready(3, TRUE, <<"w", 1>>, <<LinkOpen, LinkClosed, LinkOpen>>, 3, 2)

(***************************************************************************)
(* _send_ble_escpos applied to raw payloads of every length, on a          *)
(* connected printer and a single request thread.                          *)
(***************************************************************************)
InitSend ==
    /\ ReadyDetected
    /\ \E n \in 0..MaxPayloadLen :
         th = [ThreadsAfterDetection EXCEPT ![<<"w", 1>>] =
                  [IdleThread EXCEPT !.pc = "send_entry", !.req = 1, !.data = Payload(n)]]
    /\ budget = Load(0, 0, 0, 0, 0)
    /\ logo = "missing"
    /\ UsbFresh
    /\ config = "missing"
    /\ ubudget = ULoad(0, 0, 0, 0)

NextSend ==
    \/ \E t \in Workers : SendEntry(t)
    \/ \E t \in Workers : SendDispatch(t)
    \/ \E t \in Workers : SendRun(t)
    \/ \E k \in TaskIds : SendEnter(k)
    \/ \E k \in TaskIds, o \in {"ok", "fail", "hang"} : Write(k, o)
    \/ \E t \in Workers : Return(t)

SpecSend == InitSend /\ [][NextSend]_vars

(***************************************************************************)
(* Requests on a ready printer: three of them after the detection, or two  *)
(* and a cleared selection once worker 1 has reconnected, which leaves the *)
(* event loop of a request thread stored.  The logo file is present.       *)
(***************************************************************************)
InitReady ==
    /\ \/ ReadyDetected /\ budget = Load(0, 0, 0, MaxPrints, 0)
       \/ ReadyReconnected /\ budget = Load(0, 0, MaxClears, MaxRequests, 0)
    /\ th = ThreadsAfterDetection
    /\ logo = "ok"
    /\ UsbFresh
    /\ config = "missing"
    /\ ubudget = ULoad(0, 0, 0, 0)

NextReady ==
    \/ \E index \in -1..2 : SelectNone(index)
    \/ \E t \in Workers : ConnectRun(t)
    \/ \E t \in Workers, url \in Urls, code \in Codes : Request(t, url, code)
    \/ \E t \in Workers : SendEntry(t)
    \/ \E t \in Workers : SendDispatch(t)
    \/ \E t \in Workers : SendRun(t)
    \/ \E t \in Workers : SendTimeout(t)
    \/ \E t \in Workers : Return(t)
    \/ \E k \in TaskIds : ConnectEnter(k)
    \/ \E k \in TaskIds : ConnectAcquire(k)
    \/ \E k \in TaskIds : ConnectLockError(k)
    \/ \E k \in TaskIds, o \in {"ok", "timeout", "fail"} : ConnectDone(k, o)
    \/ \E k \in TaskIds : DisconnectEnter(k)
    \/ \E k \in TaskIds : DisconnectAcquire(k)
    \/ \E k \in TaskIds : DisconnectLockError(k)
    \/ \E k \in TaskIds, o \in {"ok", "raise", "hang"} : DisconnectDone(k, o)
    \/ \E k \in TaskIds : SendEnter(k)
    \/ \E k \in TaskIds, o \in {"ok", "fail", "hang"} : SendConnectDone(k, o)
    \/ \E k \in TaskIds, o \in {"ok", "fail", "hang"} : Write(k, o)

SpecReady == InitReady /\ [][NextReady]_vars

\* the threads once the first detection thread has ended on a connection
\* timeout
ThreadsAfterFailedDetection ==
    [ThreadsAfterDetection EXCEPT ![<<"d", 1>>] =
        [IdleThread EXCEPT !.pc = "dead", !.h = NoClient,
            !.connect = "BLE connection timeout (10s) - device may be out of range"]]

\* PrinterA selected, but its detection thread could not connect: the UUIDs
\* are unset and the client of the failed attempt is still stored
ReadyUndetected ==
    /\ ble_devices = <<DevA, DevB>>
    /\ selected_ble_device_addr = DevA.address
    /\ ble_service_uuid = ""
    /\ ble_char_uuid = ""
    /\ ble_client = 1
    /\ ble_connected = FALSE
    /\ ble_connection_lock = NoTask
    /\ ble_event_loop = <<"d", 1>>
    /\ loops = {<<"d", 1>>}
    /\ runner = [t \in Threads |-> NoThread]
    /\ tasks = << >>
    /\ links = <<LinkClosed>>
    /\ connectCalls = 1
    /\ wseq = << >>
    /\ interleaved = FALSE
    /\ nsel = 1
    /\ nreq = 0

\* the ready states with every thread at rest
ReachedReadyUndetected == ReadyUndetected /\ th = ThreadsAfterFailedDetection
ReachedReadyDetected == ReadyDetected /\ th = ThreadsAfterDetection
ReachedReadyDropped == ReadyDropped /\ th = ThreadsAfterDetection
ReachedReadyReconnected == ReadyReconnected /\ th = ThreadsAfterDetection

(***************************************************************************)
(* Properties.                                                             *)
(***************************************************************************)
Ceil(n, d) == (n + d - 1) \div d

\* the connection state is Connected: a live handle and the flag up
Connected == ble_client # NoClient /\ ble_connected

WrittenBytes(w) == Concat([j \in 1..Len(w) |-> w[j].bytes])

\* the writes w are consecutive 180-byte pieces from offset 0, in order
InOrder(w) == \A j \in 1..Len(w) : w[j].off = (j - 1) * 180

Succeeded(t) == th[t].pc = "done" /\ th[t].status = 200

\* C1: a payload of n >= 0 bytes sent with every write succeeding is written
\* as exactly ceil(n/180) chunks, at increasing offsets, each of 180 bytes but
\* a possibly shorter last one, and the chunks concatenate to the payload
C1_ChunkedInOrder ==
    \A t \in Workers :
        Succeeded(t) =>
            LET w == th[t].written
                n == Len(th[t].data) IN
            /\ Len(w) = Ceil(n, 180)
            /\ InOrder(w)
            /\ \A j \in 1..Len(w) :
                   Len(w[j].bytes) = IF j < Len(w) THEN 180 ELSE n - (j - 1) * 180
            /\ WrittenBytes(w) = th[t].data

C1_Witness500 ==
    \E t \in Workers :
        /\ Succeeded(t)
        /\ Len(th[t].data) = 500
        /\ [j \in 1..Len(th[t].written) |-> Len(th[t].written[j].bytes)] = <<180, 180, 140>>

\* the send of thread t ends in this step with a failed write
WriteFailsFor(t) ==
    /\ th[t].pc = "send_wait"
    /\ th'[t].pc = "done"
    /\ th'[t].err = "write failed"

\* C2: when the write of a chunk fails, the send writes no later chunk (its
\* coroutine has ended with only the earlier chunks written), ble_connected
\* is false and the caller is told of the write failure
C2_FailedWriteAborts ==
    [][\A t \in Workers :
          WriteFailsFor(t) =>
              /\ ~ble_connected'
              /\ th'[t].status = 500
              /\ \A k \in DOMAIN tasks' : tasks'[k].req # th[t].req
              /\ InOrder(th'[t].written)
              /\ Len(th'[t].written) < Ceil(Len(th[t].data), 180)
              /\ WrittenBytes(th'[t].written)
                   = SubSeq(th[t].data, 1, 180 * Len(th'[t].written))]_vars

C2_WitnessSecondChunkFails ==
    \E t \in Workers :
        /\ th[t].pc = "done" /\ th[t].err = "write failed"
        /\ Len(th[t].written) = 1
        /\ ~ble_connected

\* C3: a BLE print request answers success only if every chunk of the built
\* document, the bytes of the line "CODE: {code}" among them, was written in
\* order to the detected characteristic
C3_SuccessMeansDelivered ==
    \A t \in Workers :
        Succeeded(t) =>
            LET w == th[t].written IN
            /\ Len(w) = Ceil(Len(th[t].data), 180)
            /\ InOrder(w)
            /\ WrittenBytes(w) = th[t].data
            /\ Contains(WrittenBytes(w), CodePrefix \o th[t].code \o <<10>>)
            /\ \A j \in 1..Len(w) : w[j].char = DetectedUuids[2]

C3_WitnessPrinted ==
    \E t \in Workers :
        /\ Succeeded(t)
        /\ th[t].code = Code1
        /\ Len(th[t].written) >= 2
        /\ Contains(WrittenBytes(th[t].written), CodePrefix \o Code1)

\* the caller t of a send gives up on future.result(timeout=30) in this step
\* while the write of its coroutine has not returned
TimesOutOnWrite(t) ==
    /\ th[t].pc = "send_wait"
    /\ th'[t].pc = "done"
    /\ th'[t].err = "timeout"
    /\ tasks[th[t].task].pc = "hung_write"

\* C4: a send whose write never completes within the 30-second bound returns
\* an error to the caller and leaves the connection state Disconnected
C4_TimedOutSendDisconnects ==
    [][\A t \in Workers :
          TimesOutOnWrite(t) => (th'[t].status = 500 /\ ~ble_connected')]_vars

Waiting == {"connect_wait", "send_wait", "disconnect_wait"}
Hung == {"hung_connect", "hung_write", "hung_close"}

\* thread t is inside a synchronous call whose coroutine will never finish
StuckOn(t) ==
    /\ th[t].pc \in Waiting
    /\ th[t].task \in DOMAIN tasks
    /\ tasks[th[t].task].pc \in Hung

\* C5: every synchronous BLE call returns even when the asynchronous
\* operation under it never completes: a caller waiting on a coroutine that
\* hangs waits with a timeout
C5_NoCallerBlockedForever ==
    \A t \in Threads : StuckOn(t) => tasks[th[t].task].waiter = "result"

\* send coroutine k is connecting or writing
SendActive(k) == tasks[k].kind = "send" /\ tasks[k].pc \in {"await_connect", "write"}

\* C6: concurrent BLE operations are serialized: the chunk writes of one send
\* never interleave with those of another, and no send connects or writes
\* while a connect or disconnect holds the connection lock
C6_OperationsSerialized ==
    /\ ~interleaved
    /\ \A k \in DOMAIN tasks : SendActive(k) => LockFree

\* coroutine k advances or ends in this step
Steps(k) ==
    /\ k \in DOMAIN tasks
    /\ k \notin DOMAIN tasks' \/ tasks'[k].pc # tasks[k].pc \/ tasks'[k].i # tasks[k].i

\* thread t gets this answer from connect_ble in this step
ConnectReturns(t) == th[t].connect = "" /\ th'[t].connect # ""

ConnectSucceeds(t) == ConnectReturns(t) /\ th'[t].pc \in {"send_dispatch", "detect"}

\* C7: connect() on a connected printer, with no other connect or disconnect
\* in progress, makes no underlying connect call, keeps the client handle and
\* the Connected state, and returns success
C7_ConnectWhenConnected ==
    [][\A k \in TaskIds :
          (/\ Steps(k) /\ tasks[k].kind = "connect"
           /\ Connected /\ LockFree /\ selected_ble_device_addr # None) =>
              /\ connectCalls' = connectCalls
              /\ links' = links
              /\ ble_client' = ble_client
              /\ ble_connected'
              /\ k \notin DOMAIN tasks'
              /\ tasks[k].waiter # "none" =>
                    /\ ConnectSucceeds(tasks[k].owner)
                    /\ th'[tasks[k].owner].connect = "Already connected"]_vars

C7_WitnessAlreadyConnected ==
    \E t \in Threads :
        /\ th[t].connect = "Already connected"
        /\ th[t].pc \in {"send_dispatch", "detect"}
        /\ Connected

\* C8: whenever connect() returns success the state is Connected at that
\* moment, with the live handle kept
C8_SuccessMeansConnected ==
    [][\A t \in Threads :
          ConnectSucceeds(t) =>
              /\ ble_connected'
              /\ ble_client' # NoClient
              /\ links'[ble_client'].state = "open"]_vars

\* the awaited connect of coroutine k times out or raises in this step
UnderlyingConnectFails(k) ==
    /\ k \in DOMAIN tasks
    /\ tasks[k].kind = "connect" /\ tasks[k].pc = "await_connect"
    /\ k \notin DOMAIN tasks'
    /\ links'[tasks[k].h].state = "closed"

ConnectFailures ==
    {"BLE connection timeout (10s) - device may be out of range", "BLE connection failed"}

\* C9: a connect that times out or fails makes connect() return that failure
\* and leaves the state Disconnected; with no device selected connect() fails
\* without an underlying connect call
C9_ConnectFailureReported ==
    [][/\ \A k \in TaskIds :
             UnderlyingConnectFails(k) =>
                 /\ ~ble_connected'
                 /\ ConnectReturns(tasks[k].owner)
                 /\ th'[tasks[k].owner].connect \in ConnectFailures
       /\ \A k \in TaskIds :
             (/\ Steps(k) /\ tasks[k].kind = "connect" /\ tasks[k].pc = "start"
              /\ selected_ble_device_addr = None) =>
                 /\ connectCalls' = connectCalls
                 /\ ble_client' = ble_client
                 /\ k \notin DOMAIN tasks'
                 /\ tasks[k].waiter # "none" => ~ConnectSucceeds(tasks[k].owner)
       /\ \A t \in Threads :
             (ConnectReturns(t) /\ selected_ble_device_addr = None
              /\ th[t].task = NoTask) => ~ConnectSucceeds(t)]_vars

\* a write of send coroutine k fails in this step
WriteFailsIn(k) ==
    /\ k \in DOMAIN tasks
    /\ tasks[k].kind = "send" /\ tasks[k].pc = "write"
    /\ k \notin DOMAIN tasks'
    /\ ~ble_connected'

\* the disconnect coroutine k completes in this step
DisconnectCompletes(k) ==
    /\ k \in DOMAIN tasks
    /\ tasks[k].kind = "disconnect" /\ tasks[k].pc = "await_close"
    /\ k \notin DOMAIN tasks'

\* C10: once Connected, a step of a send makes no underlying connect call and
\* keeps the client handle, a send whose writes succeed leaves the flag up,
\* and the flag goes down only by an explicit disconnect or a failed write
C10_ConnectionReused ==
    [][/\ \A k \in TaskIds :
             (Steps(k) /\ tasks[k].kind = "send" /\ Connected) =>
                 /\ connectCalls' = connectCalls
                 /\ ble_client' = ble_client
                 /\ ble_connected' \/ WriteFailsIn(k)
       /\ (ble_connected /\ ~ble_connected') =>
             \E k \in TaskIds : WriteFailsIn(k) \/ DisconnectCompletes(k)]_vars

\* send coroutine k serves the request its caller is still handling
ServesCurrent(k) ==
    /\ tasks[k].kind = "send"
    /\ th[tasks[k].owner].req = tasks[k].req

\* send coroutine k calls write_gatt_char in this step
WritesChunk(k) ==
    /\ Steps(k)
    /\ tasks[k].kind = "send" /\ tasks[k].pc = "write"

\* send coroutine k issues its first write_gatt_char in this step
IssuesFirstWrite(k) ==
    /\ k \in DOMAIN tasks /\ k \in DOMAIN tasks'
    /\ tasks[k].kind = "send" /\ tasks[k].pc \in {"start", "await_connect"}
    /\ tasks'[k].pc = "write"

\* coroutine k serves a request whose send found the state not Connected
\* and therefore called connect_ble
StartedDisconnected(k) == ServesCurrent(k) /\ th[tasks[k].owner].connect # ""

ConnectSuccesses == {None, "Already connected", "Connecting..."}

\* the connect_ble call of thread t returns a failure in this step
ConnectRefused(t) == ConnectReturns(t) /\ th'[t].connect \notin ConnectSuccesses

\* a refused connect ends the request with an error and nothing written
FailsUnwritten(t) ==
    /\ th'[t].pc = "done" /\ th'[t].status = 500
    /\ th'[t].written = << >>
    /\ \A k \in DOMAIN tasks' : tasks'[k].kind = "send" => tasks'[k].req # th[t].req

\* C11: a send that starts while the state is not Connected has performed
\* an underlying connect before its first chunk write, and when its connect
\* fails the send fails with no chunk written
C11_OwnConnectBeforeWrite ==
    [][/\ \A k \in TaskIds :
            (IssuesFirstWrite(k) /\ StartedDisconnected(k))
            => th'[tasks[k].owner].attempts >= 1
       /\ \A t \in Workers : ConnectRefused(t) => FailsUnwritten(t)]_vars

\* disconnect_ble returns to thread t in this step
DisconnectReturns(t) == th[t].pc = "disconnect_wait" /\ th'[t].pc = "idle"

\* C12: when disconnect() returns, whatever the state before and whatever
\* the underlying close did, the state is Disconnected, the handle is
\* released (ble_connected false, ble_client None) and no error reaches the
\* caller
C12_DisconnectReleases ==
    [][\A t \in Threads :
          DisconnectReturns(t)
          => /\ ~ble_connected'
             /\ ble_client' = NoClient
             /\ th'[t].err = ""]_vars

\* disconnect coroutine k runs the body of _disconnect_ble_async in this step
DisconnectRuns(k) ==
    /\ Steps(k)
    /\ tasks[k].kind = "disconnect" /\ tasks[k].pc \in {"start", "lock_wait"}
    /\ LockFree

\* disconnect coroutine k ends in this step
DisconnectEnds(k) ==
    /\ k \in DOMAIN tasks /\ tasks[k].kind = "disconnect"
    /\ k \notin DOMAIN tasks'

\* C13: disconnect() is idempotent: a disconnect leaves the state not
\* Connected, and a disconnect called in that state issues no underlying
\* close, changes nothing and returns without error
C13_DisconnectIdempotent ==
    [][\A k \in TaskIds :
          /\ (DisconnectEnds(k) /\ th'[tasks[k].owner].err = "") => ~Connected'
          /\ (DisconnectRuns(k) /\ ~Connected)
             => /\ DisconnectEnds(k)
                /\ ble_client' = ble_client /\ ble_connected' = ble_connected
                /\ links' = links
                /\ th'[tasks[k].owner].pc = "idle" /\ th'[tasks[k].owner].err = ""]_vars

\* the selection was cleared twice in a row on a connected printer: the
\* first disconnect closed the link, the second returned having done nothing
C13_WitnessSecondDisconnect ==
    /\ nsel = 1 /\ nreq = 0
    /\ budget.requests = 0 /\ budget.clears = MaxDisconnects - 2
    /\ selected_ble_device_addr = None
    /\ th[GuiThread].pc = "idle" /\ th[GuiThread].err = ""
    /\ tasks = << >>
    /\ Len(links) >= 1 /\ links[1].state = "closed"
    /\ ble_client = NoClient /\ ~ble_connected

\* the request that coroutine k works for has already been answered
Answered(k) ==
    /\ tasks[k].req # 0
    /\ th[tasks[k].owner].req # tasks[k].req \/ th[tasks[k].owner].pc = "done"

\* coroutine k calls BleakClient.connect() or write_gatt_char in this step
IssuesIO(k) ==
    /\ Steps(k)
    /\ \/ connectCalls' > connectCalls
       \/ k \in DOMAIN tasks' /\ tasks'[k].pc = "write"

\* C14: nothing is retried: a print request makes at most one underlying
\* connect attempt, writes every chunk at most once, and once it has been
\* answered with a failure no connect or write is issued on its behalf
C14_NothingRetried ==
    [][/\ \A t \in Workers :
            th'[t].attempts <= 1 /\ InOrder(th'[t].written)
       /\ \A k \in DOMAIN tasks' : InOrder(tasks'[k].written)
       /\ \A k \in TaskIds : IssuesIO(k) => ~Answered(k)]_vars

(***************************************************************************)
(* The routed service: both transports, the three routes, the USB scan and *)
(* selection and the persisted mode, on a service whose BLE side is fresh, *)
(* ready, or selected without UUIDs.  With at most two requests no connect *)
(* ever waits for the lock, so the steps of a waiting connect are absent.  *)
(***************************************************************************)
\* Thermal.__init__ before any BLE activity
ThreadsAtStart ==
    [t \in Threads |-> IF t \in Detectors THEN [IdleThread EXCEPT !.pc = "unborn"]
                        ELSE IdleThread]

BleFresh ==
    /\ ble_devices = << >>
    /\ selected_ble_device_addr = None
    /\ ble_service_uuid = ""
    /\ ble_char_uuid = ""
    /\ ble_client = NoClient
    /\ ble_connected = FALSE
    /\ ble_connection_lock = NoTask
    /\ ble_event_loop = NoThread
    /\ loops = {}
    /\ runner = [t \in Threads |-> NoThread]
    /\ tasks = << >>
    /\ links = << >>
    /\ connectCalls = 0
    /\ wseq = << >>
    /\ interleaved = FALSE
    /\ nsel = 0
    /\ nreq = 0

\* the workloads explored: one request around a scan, a selection and a mode
\* change, or concurrent requests around a scan and a selection
UWorkloads ==
    {ULoad(MaxUsbScans, MaxUsbSelects, MaxModes, 1),
     ULoad(MaxUsbScans, MaxUsbSelects, 0, MaxRouted)}

\* every state of config.json where no BLE printer can print; with a ready
\* BLE printer the file is missing or names USB
InitUsb ==
    /\ \/ /\ BleFresh /\ th = ThreadsAtStart
          /\ config \in ConfigStates /\ ubudget \in UWorkloads
       \/ /\ ReadyUndetected /\ th = ThreadsAfterFailedDetection
          /\ config \in ConfigStates /\ ubudget \in UWorkloads
       \/ /\ ReadyDetected /\ th = ThreadsAfterDetection
          /\ config \in {"missing", "USB"}
          /\ ubudget = ULoad(MaxUsbScans, MaxUsbSelects, 0, MaxRouted)
    /\ budget = Load(0, 0, 0, MaxRouted, MaxRouted)
    /\ logo = "ok"
    /\ UsbFresh

NextUsb ==
    \/ \E raised \in BOOLEAN, bus \in UsbBuses : scan_usb_thermal(raised, bus)
    \/ \E index \in -1..Len(usb_devices) : select_usb_thermal(index)
    \/ \E mode \in {"BLE", "USB"}, o \in {"ok", "open_error", "dump_error"} :
          save_thermal_mode(mode, o)
    \/ \E o \in {"ok", "open_error"} : save_printer_config(o)
    \/ \E t \in Workers, url \in Urls, code \in Codes : handle_thermal(t, url, code)
    \/ \E t \in Workers, url \in Urls, code \in Codes : handle_thermal_ble(t, url, code)
    \/ \E t \in Workers, url \in Urls, code \in Codes : handle_thermal_usb(t, url, code)
    \/ \E t \in Workers, driver \in {"inactive", "active", "error"},
          conf \in {"ok", "already", "usb_error"} : UsbOpen(t, driver, conf)
    \/ \E t \in Workers, o \in {"ok", "short", "timeout", "usb_error", "error"} : UsbWrite(t, o)
    \/ \E t \in Workers, o \in {"ok", "error"} : UsbRelease(t, o)
    \/ \E t \in Workers : SendEntry(t)
    \/ \E t \in Workers : SendDispatch(t)
    \/ \E t \in Workers : SendRun(t)
    \/ \E t \in Workers : SendTimeout(t)
    \/ \E t \in Workers : ConnectRun(t)
    \/ \E t \in Workers : Return(t)
    \/ \E k \in TaskIds : ConnectEnter(k)
    \/ \E k \in TaskIds, o \in {"ok", "timeout", "fail"} : ConnectDone(k, o)
    \/ \E k \in TaskIds : SendEnter(k)
    \/ \E k \in TaskIds, o \in {"ok", "fail", "hang"} : SendConnectDone(k, o)
    \/ \E k \in TaskIds, o \in {"ok", "fail", "hang"} : Write(k, o)

SpecUsb == InitUsb /\ [][NextUsb]_vars

(***************************************************************************)
(* _send_usb_escpos applied to raw payloads of every number of chunks, on  *)
(* each printer a scan can list, by a single request thread.               *)
(***************************************************************************)
\* payload lengths around the chunk boundaries
UsbLengths ==
    {0} \cup UNION {{c * USB_CHUNK - 1, c * USB_CHUNK, c * USB_CHUNK + 1} : c \in 1..MaxUsbChunks}

UsbPayload(n) == [i \in 1..n |-> i % 256]

InitUsbSend ==
    /\ ReadyDetected
    /\ \E n \in UsbLengths :
         th = [ThreadsAfterDetection EXCEPT ![<<"w", 1>>] =
                  [IdleThread EXCEPT !.pc = "usb_send", !.code = Code1, !.data = UsbPayload(n)]]
    /\ budget = Load(0, 0, 0, 0, 0)
    /\ logo = "ok"
    /\ usb_devices = FoundPrinters(UsbBus)
    /\ \E i \in 1..Len(usb_devices) : selected_usb_device = usb_devices[i]
    /\ config = "USB"
    /\ job = [t \in Workers |-> IF t = <<"w", 1>>
                                 THEN [IdleJob EXCEPT !.route = "/thermal", !.mode = "USB"]
                                 ELSE IdleJob]
    /\ ubudget = ULoad(0, MaxUsbSelects, 0, 0)

NextUsbSend ==
    \/ \E index \in -1..Len(usb_devices) : select_usb_thermal(index)
    \/ \E t \in Workers, driver \in {"inactive", "active", "error"},
          conf \in {"ok", "already", "usb_error"} : UsbOpen(t, driver, conf)
    \/ \E t \in Workers, o \in {"ok", "short", "timeout", "usb_error", "error"} : UsbWrite(t, o)
    \/ \E t \in Workers, o \in {"ok", "error"} : UsbRelease(t, o)
    \/ \E t \in Workers : Return(t)

SpecUsbSend == InitUsbSend /\ [][NextUsbSend]_vars

(***************************************************************************)
(* Properties of the routed service.                                       *)
(***************************************************************************)
\* a handler takes a request in this step
HandlerStep(t, route, url, code) ==
    UsbPrint(t, route, url, code) \/ BlePrint(t, route, url, code)

\* the request of thread t is answered at once, with nothing built, no
\* connect, no write and the selection and connection state as they were
Rejects(t, status, err) ==
    /\ th'[t].pc = "done" /\ th'[t].status = status /\ th'[t].err = err
    /\ th'[t].data = Empty
    /\ job'[t].log = << >>
    /\ UNCHANGED <<selVars, connVars, usb_devices, selected_usb_device>>
    /\ connectCalls' = connectCalls /\ links' = links /\ wseq' = wseq /\ tasks' = tasks

\* the request of thread t passes the checks and enters the send
Accepts(t, pc) == th'[t].pc = pc

Validated(t, route, url, code) ==
    IF url = Empty \/ code = Empty
    THEN Rejects(t, 400, "'url' and 'code' are required")
    ELSE IF Transport(route, config) = "USB"
    THEN IF selected_usb_device = NoPrinter
         THEN Rejects(t, 500, "No USB thermal printer selected")
         ELSE Accepts(t, "usb_send")
    ELSE IF selected_ble_device_addr = None
    THEN Rejects(t, 500, "No BLE printer selected")
    ELSE IF ble_service_uuid = "" \/ ble_char_uuid = ""
    THEN Rejects(t, 500, "BLE Service/Characteristic UUID not set")
    ELSE Accepts(t, "send_entry")

\* C15: a print request is validated in this order: an empty url or code is
\* answered 400; otherwise a missing selection for the transport in use is
\* refused; otherwise, over BLE, an unset service or characteristic UUID is
\* refused; a refused request builds nothing, connects and writes nothing and
\* leaves the selection and connection state unchanged
C15_ValidationOrder ==
    [][\A t \in Workers, route \in Routes, url \in Urls, code \in Codes :
          HandlerStep(t, route, url, code) => Validated(t, route, url, code)]_vars

\* a request through /thermal was refused for its unset UUIDs, with PrinterA
\* selected
C15_WitnessMissingCharacteristic ==
    \E t \in Workers :
        /\ th[t].pc = "done"
        /\ th[t].err = "BLE Service/Characteristic UUID not set"
        /\ job[t].route = "/thermal"
        /\ selected_ble_device_addr = DevA.address

\* the positions of a request thread inside the USB print
UsbPcs == {"usb_send", "usb_write", "usb_release"}

\* thread t enters or advances a print over USB in this step
UsbPrintStep(t) ==
    \/ th[t].pc = "idle" /\ th'[t].pc = "usb_send"
    \/ th[t].pc \in UsbPcs /\ th'[t] # th[t]

\* a print over BLE advances in this step: a request thread enters or moves
\* in the BLE send, or one of the coroutines of the BLE side runs
BlePrintStep ==
    \/ \E t \in Workers :
          /\ th'[t] # th[t]
          /\ th'[t].pc \notin UsbPcs
          /\ th[t].pc \notin UsbPcs \cup {"idle", "done"} \/ th'[t].pc = "send_entry"
    \/ tasks' # tasks

\* the mode config.json holds
PersistedMode == Upper(load_thermal_mode(config))

\* C16: the transport of a print is the one the persisted mode names,
\* whatever the request; a request uses one transport only; a print over
\* USB leaves the BLE selection, connection flag and handle unchanged and a
\* print over BLE leaves the USB selection and device list unchanged
C16_ModeDecidesTransport ==
    [][/\ \A t \in Workers :
            /\ (th[t].pc = "idle" /\ th'[t].pc = "usb_send") => PersistedMode = "USB"
            /\ (th[t].pc = "idle" /\ th'[t].pc = "send_entry") => PersistedMode # "USB"
            /\ ~(th'[t].written # << >> /\ job'[t].log # << >>)
            /\ UsbPrintStep(t) => UNCHANGED <<selVars, ble_connected, ble_client>>
       /\ BlePrintStep => UNCHANGED <<usb_devices, selected_usb_device>>]_vars

(***************************************************************************)
(* Properties of the USB send.                                             *)
(***************************************************************************)
IsWrite(c) == c.op = "write"

\* the write attempts of the send of thread t, in the order made
UsbWrites(t) == SelectSeq(job[t].log, IsWrite)

\* the number of chunks of a payload
UsbChunkCount(data) == (Len(data) + USB_CHUNK - 1) \div USB_CHUNK

\* C17: a USB send writes the data in chunks of 8192 bytes (the last one
\* shorter) at offsets 0, 8192, 16384, ... in that order, all of them when
\* every write succeeds; once the write of a chunk has timed out no later
\* chunk is written, and the send returns without an error: the request is
\* answered 200
C17_ChunksInOrderTimeoutStops ==
    \A t \in Workers :
        LET w == UsbWrites(t)
            data == th[t].data
        IN  /\ \A j \in 1..Len(w) :
                  /\ w[j].off = (j - 1) * USB_CHUNK
                  /\ w[j].off < Len(data)
                  /\ Len(w[j].bytes) = Min(USB_CHUNK, Len(data) - w[j].off)
                  /\ w[j].bytes = SubSeq(data, w[j].off + 1, w[j].off + Len(w[j].bytes))
            /\ \A j \in 1..(Len(w) - 1) : w[j].outcome # "timeout"
            /\ (th[t].pc = "done" /\ w # << >> /\ w[Len(w)].outcome = "timeout")
                  => th[t].status = 200 /\ th[t].err = ""
            /\ (th[t].pc = "done" /\ th[t].status = 200 /\ job[t].device # NoUsbDevice
                  /\ \A j \in 1..Len(w) : w[j].outcome \in {"ok", "short"})
                  => Len(w) = UsbChunkCount(data)

\* the second of three chunks timed out, the third was never written and the
\* request was answered 200
C17_WitnessTimeoutSecondChunk ==
    \E t \in Workers :
        /\ th[t].pc = "done" /\ th[t].status = 200
        /\ UsbChunkCount(th[t].data) = 3
        /\ Len(UsbWrites(t)) = 2
        /\ UsbWrites(t)[1].outcome = "ok"
        /\ UsbWrites(t)[2].outcome = "timeout"

\* the outcomes of a write that are errors other than a timeout
WriteErrors == {"usb_error", "error"}

\* C18: a chunk write that fails with an error other than a timeout is the
\* last write of the send, and the request is answered as failed
C18_WriteErrorFailsRequest ==
    \A t \in Workers :
        LET w == UsbWrites(t)
        IN  /\ \A j \in 1..(Len(w) - 1) : w[j].outcome \notin WriteErrors
            /\ (th[t].pc = "done" /\ w # << >> /\ w[Len(w)].outcome \in WriteErrors)
                  => th[t].status = 500 /\ th[t].err # ""

IsRelease(c) == c.op = "release_interface"

\* the releases of interface 0 attempted by the send of thread t
UsbReleases(t) == SelectSeq(job[t].log, IsRelease)

\* the send of thread t has its device (line 503) and has returned or raised
UsbSendOver(t) == th[t].pc = "done" /\ job[t].device # NoUsbDevice

\* at most one release, none before the send is over, and none followed by
\* a write
ReleasedOnceLast(t) ==
    /\ Len(UsbReleases(t)) = (IF UsbSendOver(t) THEN 1 ELSE 0)
    /\ UsbSendOver(t) =>
          /\ job[t].log[Len(job[t].log)].op = "release_interface"
          /\ job[t].log[Len(job[t].log)].dev = job[t].device

\* C19: every USB send that has its device attempts to release interface 0
\* of that device exactly once, after its last write attempt, whatever the
\* outcome; whether the release fails or not, the request is answered 200
\* when nothing was raised before it and 500 otherwise
C19_ReleaseOnceWhateverOutcome ==
    [][\A t \in Workers :
          /\ ReleasedOnceLast(t)'
          /\ (th[t].pc = "usb_release" /\ th'[t].pc = "done") =>
                (th'[t].status = IF job[t].raised = "" THEN 200 ELSE 500)]_vars

\* a send whose only write raised and whose release failed as well: the
\* release was still attempted, once, and the request answered 500
C19_WitnessReleaseAfterWriteError ==
    \E t \in Workers :
        /\ UsbSendOver(t)
        /\ th[t].status = 500
        /\ Len(job[t].log) = 2
        /\ job[t].log[1].op = "write" /\ job[t].log[1].outcome = "error"
        /\ job[t].log[2].op = "release_interface" /\ job[t].log[2].outcome = "error"

\* address a is the OUT endpoint that comes first in the enumeration eps
FirstOutIs(eps, a) ==
    \E i \in 1..Len(eps) :
        /\ eps[i] = a
        /\ a < 128
        /\ \A j \in 1..(i - 1) : eps[j] >= 128

HasOut(eps) == \E i \in 1..Len(eps) : eps[i] < 128

\* C20: every write of a USB send goes to the first OUT endpoint of
\* interface (0, 0) of its device, in enumeration order; on a device without
\* an OUT endpoint the send makes no write and fails: the lookup raises
\* unless an earlier step already has, and the request is answered 500
C20_FirstOutEndpoint ==
    \A t \in Workers :
        job[t].device # NoUsbDevice =>
            LET eps == UsbDevice(job[t].device).endpoints
                w == UsbWrites(t)
            IN  /\ \A j \in 1..Len(w) :
                      w[j].dev = job[t].device /\ FirstOutIs(eps, w[j].ep)
                /\ ~HasOut(eps) =>
                      /\ w = << >>
                      /\ job[t].raised \in {"Could not find OUT endpoint",
                                            "is_kernel_driver_active failed",
                                            "set_configuration failed"}
                      /\ th[t].pc = "done" => th[t].status = 500

\* a send to the printer without an OUT endpoint: the lookup raised, nothing
\* was written, the interface was released and the request answered 500
C20_WitnessNoEndpoint ==
    \E t \in Workers :
        /\ th[t].pc = "done" /\ th[t].status = 500
        /\ job[t].device = UsbGeneric.id
        /\ job[t].raised = "Could not find OUT endpoint"
        /\ UsbWrites(t) = << >>
        /\ Len(job[t].log) = 1

\* the send of thread t has configured its device and not yet released it
InUsbSend(t) == th[t].pc \in {"usb_write", "usb_release"} /\ job[t].device # NoUsbDevice

\* C21: two print jobs on the same USB device are never in their send phase
\* (configuration, chunk writes, release) at the same time
C21_UsbSendsSerialized ==
    \A t, u \in Workers :
        (t # u /\ InUsbSend(t) /\ InUsbSend(u)) => job[t].device # job[u].device

InitSelect ==
    /\ BleFresh /\ th = ThreadsAtStart
    /\ \/ /\ budget \in Workloads
          /\ ubudget = ULoad(0, 0, 0, 0)
          /\ logo \in LogoStates
       \/ /\ budget = Load(MaxScans, 1, MaxClears, 1, 0)
          /\ ubudget = ULoad(MaxRescans, MaxUsbSelects, 0, 1)
          /\ logo = "ok"
       \/ /\ budget = Load(MaxRescans, 1, 0, 0, 0)
          /\ ubudget = ULoad(0, 0, 0, 0)
          /\ logo = "ok"
       \/ /\ budget = Load(MaxScans, MaxSelects, 0, 1, 0)
          /\ ubudget = ULoad(0, 0, 0, 0)
          /\ logo = "ok"
    /\ UsbFresh
    /\ config = "missing"

NextSelect ==
    \/ Next
    \/ \E raised \in BOOLEAN, bus \in UsbBuses : scan_usb_thermal(raised, bus)
    \/ \E index \in -1..Len(usb_devices) : select_usb_thermal(index)
    \/ \E t \in Workers, url \in Urls, code \in Codes : handle_thermal_usb(t, url, code)
    \/ \E t \in Workers, driver \in {"inactive", "active", "error"},
          conf \in {"ok", "already", "usb_error"} : UsbOpen(t, driver, conf)
    \/ \E t \in Workers, o \in {"ok", "short", "timeout", "usb_error", "error"} : UsbWrite(t, o)
    \/ \E t \in Workers, o \in {"ok", "error"} : UsbRelease(t, o)

SpecSelect == InitSelect /\ [][NextSelect]_vars

SelectsBle == \E index \in -1..2 : SelectNone(index) \/ SelectDevice(index)
SelectsUsb == \E index \in -1..Len(usb_devices) : select_usb_thermal(index)

\* C23: the selected BLE address and the selected USB device change only in a
\* step of a select operation; scans, connects, disconnects, sends and print
\* requests, failed or not, leave both as they were
C23_SelectionChangedBySelectOnly ==
    [][/\ selected_ble_device_addr' # selected_ble_device_addr => SelectsBle
       /\ selected_usb_device' # selected_usb_device => SelectsUsb]_vars

\* a USB device stays selected after a later scan emptied the device list
C23_WitnessSelectionSurvivesRescan ==
    /\ selected_usb_device # NoPrinter
    /\ usb_devices = << >>
    /\ ubudget.scans = 0

\* what a scan is to return: the accessible allow-listed devices of the bus,
\* in bus order, each with its strings or the fallback strings
Listed(d) == d.access = "ok" /\ IsThermal(d)
ListedPrinters(bus) ==
    [i \in 1..Len(SelectSeq(bus, Listed)) |-> printer_info(SelectSeq(bus, Listed)[i])]

\* C24: a scan whose enumeration succeeds stores and returns, in enumeration
\* order, exactly the accessible allow-listed devices; a device whose strings
\* cannot be read is among them with the fallback strings
C24_ScanListsAllowedDevices ==
    [][\A bus \in UsbBuses :
          scan_usb_thermal(FALSE, bus) => usb_devices' = ListedPrinters(bus)]_vars

\* C25: after every scan the stored BLE device list holds exactly the devices
\* of that scan, none when the scan failed, whatever the list held before
C25_ScanReplacesDeviceList ==
    [][\A raised \in BOOLEAN, found \in ScanLists :
          scan_ble_thermal(raised, found) =>
              ble_devices' = IF raised THEN << >> ELSE found]_vars

\* the characteristics of a device that advertise a write capability, by
\* service position and position within the service
WriteCapable(svcs) ==
    {p \in UNION {{<<i, j>> : j \in 1..Len(svcs[i].characteristics)} : i \in 1..Len(svcs)} :
        svcs[p[1]].characteristics[p[2]].properties
           \cap {"write", "write-without-response"} # {}}
Before(p, q) == p[1] < q[1] \/ (p[1] = q[1] /\ p[2] <= q[2])
FirstWriteCapable(svcs) ==
    CHOOSE p \in WriteCapable(svcs) : \A q \in WriteCapable(svcs) : Before(p, q)

\* C26: a detection that ends in time records the UUID of the first
\* characteristic, in service order then characteristic order, that advertises
\* write or write-without-response, together with the UUID of the service that
\* holds it; every other end of a detection records nothing
C26_DetectsFirstWritable ==
    [][\A t \in Detectors :
          /\ \A outcome \in {"ok", "fail"} :
                DetectOpen(t, outcome) => UNCHANGED <<ble_service_uuid, ble_char_uuid>>
          /\ \A outcome \in {"ok", "fail", "timeout"} :
                DetectFinish(t, outcome) =>
                   LET svcs == Services(links[th[t].h].addr) IN
                   IF outcome = "ok" /\ WriteCapable(svcs) # {}
                   THEN /\ ble_service_uuid' = svcs[FirstWriteCapable(svcs)[1]].uuid
                        /\ ble_char_uuid' =
                              svcs[FirstWriteCapable(svcs)[1]]
                                 .characteristics[FirstWriteCapable(svcs)[2]].uuid
                        /\ th'[t].err = ""
                   ELSE /\ UNCHANGED <<ble_service_uuid, ble_char_uuid>>
                        /\ th'[t].err # ""]_vars

\* the detection of PrinterA ended with the third characteristic seen, the
\* first writable one, and its service
C26_WitnessSecondServiceThirdCharacteristic ==
    \E t \in Detectors :
        /\ th[t].pc = "dead"
        /\ th[t].err = ""
        /\ ble_service_uuid = "svc2"
        /\ ble_char_uuid = "c3"

(* Properties of the document builder. *)
\* the sections of a document in the order required of them
Layout(url, code, logoState) ==
    (IF logoState = "ok" THEN <<OpImage, OpTextln(Separator)>> ELSE << >>)
    \o (IF QrEncodable(url) THEN <<OpQr(url)>> ELSE << >>)
    \o <<OpTextln(CodePrefix \o code), OpTextln(Empty), OpRaw(<<27, 33, 48>>),
         OpTextln(TxtScan), OpTextln(TxtDownload), OpTextln(Separator),
         OpTextln(TxtPowered), OpTextln(TxtContact), OpTextln(Separator), OpLn(2)>>

\* secs occur in ops in their order, possibly with other commands between
RECURSIVE Embeds(_, _)
Embeds(ops, secs) ==
    IF secs = << >> THEN TRUE
    ELSE IF ops = << >> THEN FALSE
    ELSE IF Head(ops) = Head(secs) THEN Embeds(Tail(ops), Tail(secs))
    ELSE Embeds(Tail(ops), secs)

\* a command that puts something on the paper other than a blank line
Printed(o) == o.op \in {"image", "qr"} \/ (o.op = "text" /\ o.bytes # <<10>>)

\* C27: the document of a request with url and code starts with the centre
\* alignment, ends with a line feed, holds exactly one line "CODE: {code}",
\* and holds its sections in the order logo, separator, QR, code line, blank
\* line, enlarged text, separator, two attribution lines, separator, feed
C27_DocumentLayout ==
    [][\A t \in Workers, url \in Urls, code \in Codes :
          Request(t, url, code) =>
             LET ops == BuildOps(url, code, logo) IN
             /\ th'[t].data = Flatten(ops)
             /\ ops[1].op = "align_center"
             /\ ops[Len(ops)].op = "lf"
             /\ Cardinality({i \in 1..Len(ops) : ops[i] = OpTextln(CodePrefix \o code)}) = 1
             /\ Embeds(ops, Layout(url, code, logo))
             /\ SelectSeq(ops, Printed) = SelectSeq(Layout(url, code, logo), Printed)]_vars

\* a request got the document with every section: logo, QR and texts
C27_WitnessFullDocument ==
    /\ logo = "ok"
    /\ \E t \in Workers :
          /\ th[t].pc # "idle"
          /\ th[t].data = Flatten(BuildOps(Url1, Code1, "ok"))

NotImage(o) == o.op # "image"

\* C28: the document built without a usable logo is the document built with
\* the logo for the same url and code, less its image command
C28_LogoSkipOnlyDropsImage ==
    [][\A t \in Workers, url \in Urls, code \in Codes :
          (Request(t, url, code) /\ logo # "ok") =>
             /\ th'[t].data = Flatten(BuildOps(url, code, logo))
             /\ \A i \in 1..Len(BuildOps(url, code, logo)) :
                   NotImage(BuildOps(url, code, logo)[i])
             /\ BuildOps(url, code, logo) = SelectSeq(BuildOps(url, code, "ok"), NotImage)]_vars

\* the text size in effect after a command: ESC ! 0x30 selects double width
\* and double height, ESC ! 0x00 selects the normal size
SizeStep(size, o) ==
    IF o = OpRaw(<<27, 33, 48>>) THEN "double"
    ELSE IF o = OpRaw(<<27, 33, 0>>) THEN "normal"
    ELSE size

RECURSIVE SizeAfter(_, _)
SizeAfter(ops, size) ==
    IF ops = << >> THEN size ELSE SizeAfter(Tail(ops), SizeStep(size, Head(ops)))

\* the size in effect when the i-th command of a document runs
SizeAt(ops, i) == SizeAfter(SubSeq(ops, 1, i - 1), "normal")

\* C29: in every document, with or without logo and QR, the enlarged size is
\* in effect for the two enlarged lines only: each switch to it is followed by
\* a reset before the next section, and the size after the last command is
\* normal
C29_EnlargedTextIsReset ==
    [][\A t \in Workers, url \in Urls, code \in Codes :
          Request(t, url, code) =>
             LET ops == BuildOps(url, code, logo) IN
             /\ th'[t].data = Flatten(ops)
             /\ SizeAfter(ops, "normal") = "normal"
             /\ \A i \in 1..Len(ops) :
                   /\ ops[i] = OpRaw(<<27, 33, 48>>) =>
                         \E j \in (i + 1)..Len(ops) : ops[j] = OpRaw(<<27, 33, 0>>)
                   /\ ops[i].op \in {"text", "image", "qr", "lf"} =>
                         (SizeAt(ops, i) = "double"
                             <=> ops[i] \in {OpTextln(TxtScan), OpTextln(TxtDownload)})]_vars

\* a request got the shortest document, without logo and without QR, with
\* its enlarged lines
C29_WitnessEnlargedWithoutLogoAndQr ==
    /\ logo = "missing"
    /\ \E t \in Workers :
          /\ th[t].pc # "idle"
          /\ th[t].data = Flatten(BuildOps(UrlLong, Code1, "missing"))
          /\ Contains(th[t].data, <<27, 33, 48>> \o TxtScan)

NotQr(o) == o.op # "qr"

\* C30: a request whose url cannot be encoded as QR still gets a document: it
\* holds no QR and is otherwise, command for command, the document of a url
\* that can be encoded
C30_QrFailureSkipsQrOnly ==
    [][\A t \in Workers, url \in Urls, code \in Codes :
          (Request(t, url, code) /\ ~QrEncodable(url)) =>
             LET ops == BuildOps(url, code, logo) IN
             /\ th'[t].pc = "send_entry"
             /\ th'[t].data = Flatten(ops)
             /\ ops # << >>
             /\ \A i \in 1..Len(ops) : NotQr(ops[i])
             /\ ops = SelectSeq(BuildOps(Url1, code, logo), NotQr)
             /\ Len(ops) = Len(BuildOps(Url1, code, logo)) - 1]_vars

\* a request with a url beyond the QR capacity got its document, logo included
C30_WitnessDocumentWithoutQr ==
    /\ logo = "ok"
    /\ \E t \in Workers :
          /\ th[t].pc # "idle"
          /\ th[t].data = Flatten(BuildOps(UrlLong, Code1, "ok"))
          /\ ~Contains(th[t].data, <<29, 40, 107>>)

(* Properties of the BLE connection state. *)
\* the step is taken by a connect or disconnect coroutine that holds the
\* connection lock before the step or acquires it in the step
LockedStep ==
    \E k \in DOMAIN tasks :
        /\ tasks[k].kind \in {"connect", "disconnect"}
        /\ ble_connection_lock = k \/ ble_connection_lock' = k
        /\ k \notin DOMAIN tasks' \/ tasks'[k] # tasks[k]

\* C31: every change of ble_connected and of ble_client is made by an
\* operation that holds the BLE connection lock
C31_StateChangesUnderLock ==
    [][(ble_connected' # ble_connected \/ ble_client' # ble_client) => LockedStep]_vars

\* the connection state read off the flag and the coroutines: Connecting
\* while the flag is down and an underlying connect call is awaited
StateOf(flag, tks) ==
    IF flag THEN "Connected"
    ELSE IF \E k \in DOMAIN tks : tks[k].pc \in {"await_connect", "hung_connect"}
    THEN "Connecting"
    ELSE "Disconnected"

Edges ==
    {<<"Disconnected", "Connecting">>, <<"Connecting", "Connected">>,
     <<"Connected", "Disconnected">>, <<"Connecting", "Disconnected">>}

\* the underlying connect call awaited by coroutine k completes successfully
ConnectSucceedsIn(k) ==
    /\ k \in DOMAIN tasks
    /\ tasks[k].pc = "await_connect"
    /\ Steps(k)
    /\ links'[tasks[k].h].state = "open"

\* the underlying connect call awaited by coroutine k fails or times out
ConnectFailsIn(k) ==
    /\ k \in DOMAIN tasks
    /\ tasks[k].pc = "await_connect"
    /\ k \notin DOMAIN tasks'
    /\ ~ble_connected'

\* C32: the connection state moves only from Disconnected to Connecting, from
\* Connecting to Connected when an underlying connect call succeeded, from
\* Connecting to Disconnected when one failed or timed out, and from Connected
\* to Disconnected by an explicit disconnect or a failed write
C32_StateMachine ==
    [][/\ StateOf(ble_connected', tasks') # StateOf(ble_connected, tasks) =>
             <<StateOf(ble_connected, tasks), StateOf(ble_connected', tasks')>> \in Edges
       /\ (~ble_connected /\ ble_connected') => \E k \in TaskIds : ConnectSucceedsIn(k)
       /\ (ble_connected /\ ~ble_connected') =>
             \E k \in TaskIds : WriteFailsIn(k) \/ DisconnectCompletes(k)
       /\ (StateOf(ble_connected, tasks) = "Connecting"
             /\ StateOf(ble_connected', tasks') = "Disconnected") =>
             \E k \in TaskIds : ConnectFailsIn(k)]_vars

\* C33: at most one event loop is ever created for BLE operations, the stored
\* loop is never replaced once set, and no loop other than the stored one is
\* driven by a thread
C33_OneEventLoop ==
    [][/\ Cardinality(loops') <= 1
       /\ ble_event_loop # NoThread => ble_event_loop' = ble_event_loop
       /\ \A l \in Threads :
             (runner'[l] # NoThread /\ ble_event_loop' # NoThread) => l = ble_event_loop']_vars

\* C34: while a device is selected and the state is Connected, the client
\* handle is a link that was opened to the selected address
C34_ConnectedToSelected ==
    (Connected /\ selected_ble_device_addr # None) =>
        links[ble_client].addr = selected_ble_device_addr

\* C35: a print is accepted, and its chunks are written, only with the service
\* and characteristic UUIDs that detection finds on the selected device
C35_UuidsOfSelectedDevice ==
    [][/\ \A t \in Workers, url \in Urls, code \in Codes :
             Request(t, url, code) =>
                <<ble_service_uuid, ble_char_uuid>>
                    = detect_uuids(Services(selected_ble_device_addr))
       /\ \A k \in TaskIds :
             (Steps(k) /\ tasks[k].kind = "send" /\ tasks[k].pc = "write"
                 /\ selected_ble_device_addr # None) =>
                ble_char_uuid = detect_uuids(Services(selected_ble_device_addr))[2]]_vars

\* the client handles with an open link to address a
OpenLinksTo(a) == {i \in 1..Len(links) : links[i].state = "open" /\ links[i].addr = a}

\* C36: at most one client handle is connected to the selected address, and
\* detection opens no link of its own
C36_OneLinkToSelected ==
    /\ selected_ble_device_addr # None =>
          Cardinality(OpenLinksTo(selected_ble_device_addr)) <= 1
    /\ \A t \in Detectors : th[t].pc = "enumerate" => th[t].h = ble_client

(* Properties of the USB selection, the USB send and the configuration file. *)
\* C37: the selected USB device is none or an entry of the list stored by the
\* most recent scan, also while a request sends to it
C37_SelectedUsbIsListed ==
    /\ selected_usb_device # NoPrinter =>
          \E i \in 1..Len(usb_devices) : usb_devices[i] = selected_usb_device
    /\ \A t \in Workers :
          (th[t].pc = "usb_send" /\ selected_usb_device # NoPrinter) =>
              \E i \in 1..Len(usb_devices) : usb_devices[i].device = selected_usb_device.device

\* C38: a USB send answered 200 whose writes met neither a timeout nor an
\* error had every byte of the data accepted by the endpoint
C38_SentMeansAllBytesAccepted ==
    \A t \in Workers :
        (/\ UsbSendOver(t)
         /\ th[t].status = 200
         /\ \A j \in 1..Len(UsbWrites(t)) :
               UsbWrites(t)[j].outcome \notin {"timeout", "usb_error", "error"})
        => job[t].total_sent = Len(th[t].data)

\* C39: saving the page-printer settings leaves the thermal mode that is
\* read back as it was, and a thermal mode whose save succeeded is the mode
\* read back
C39_ModeSurvivesPrinterSave ==
    [][/\ \A o \in {"ok", "open_error"} :
             save_printer_config(o) => load_thermal_mode(config') = load_thermal_mode(config)
       /\ \A mode \in {"BLE", "USB"} :
             (save_thermal_mode(mode, "ok") /\ config # "corrupt") =>
                 load_thermal_mode(config') = mode]_vars

\* C40: whenever ble_connected is true, ble_client holds a client handle
C40_ConnectedHasClient == ble_connected => ble_client # NoClient

====
